---------------------------- MODULE Spec2Model ----------------------------
(***************************************************************************)
(* Sprite-atlas pipeline of tools/atlas_tool.py: region detection (flood   *)
(* fill), splitting of oversized regions (gaps / grid), adjacency merging  *)
(* (union-find), duplicate suppression, row packing and the manifest; and   *)
(* the WAV converter of tests/tools/convert_wav.py with its batch driver.  *)
(***************************************************************************)
EXTENDS Integers, Sequences, FiniteSets, TLC

VARIABLES
    pc,             \* position of the running command
    atlas,          \* cmd_extract: the loaded RGBA image (alpha channel only)
    max_size,       \* cmd_extract: --max-size
    regions,        \* cmd_extract: the region list
    region,         \* split_by_gaps, split_by_grid: the region passed in
    grid_size,      \* split_by_grid: the size of a grid cell
    fragments,      \* split_by_grid: the regions found in the cells ("result")
    atlas_json,     \* cmd_extract: the file atlas.json
    extracted,      \* cmd_extract: the list "extracted" of the manifest
    extracted_pngs, \* cmd_extract: the sprite files saved, name -> image
    sprites_dir,    \* cmd_pack: the PNG files of res/sprites, file stem -> image
    glob_order,     \* cmd_pack: the file stems in the order glob("*.png") yields them
    sprites,        \* cmd_pack: the sprite list
    duplicates,     \* cmd_pack: the (dropped id, kept id) pairs
    rows,           \* cmd_pack: the packed rows
    atlas_size,     \* cmd_pack: <<atlas_width, atlas_height>>
    pack_regions,   \* cmd_pack: the dict "regions", id -> rectangle
    written,        \* cmd_pack: the output files written so far
    fill,           \* detect_sprite_regions: visited, and the locals of flood_fill
    scan_at,        \* detect_sprite_regions: position of the scan, y * width + x
    visit_log,      \* detect_sprite_regions: the pixels added to visited, in order
    renames,        \* apply_sprite_renames: the items (old, new) of the dict, in order
    temp_files,     \* apply_sprite_renames: the dict temp_files, old name -> temporary name
    rename_at,      \* apply_sprite_renames: the item the running loop is at
    sprites_before, \* the files of res/sprites when the command was called
    sfx_dir,        \* convert_wav: the files of res/sfx, path -> content
    wav_files,      \* convert_wav: the paths glob("*.wav") has still to yield
    bits,           \* convert_wav: the global "bits" of the driver
    wav_log,        \* convert_wav: what happened to each file, in order
    sfx_before      \* the files of res/sfx when the driver was started

extract_vars == <<atlas, max_size, regions, region, grid_size, fragments,
                 atlas_json, extracted, extracted_pngs>>
pack_vars == <<sprites_dir, glob_order, sprites, duplicates, rows, atlas_size, pack_regions,
              written>>
wav_vars == <<sfx_dir, wav_files, bits, wav_log, sfx_before>>
other_vars == <<fill, scan_at, visit_log, renames, temp_files, rename_at, sprites_before,
               wav_vars>>
vars == <<pc, extract_vars, pack_vars, other_vars>>

(***************************************************************************)
(* Bounds of the explored inputs.                                          *)
(***************************************************************************)
MaxW == 3
MaxH == 3
MaxPixels == 9
StripW == 35
StripH == 3
MaxFiles == 3
EdgeLen == 5
WideW == 97
MaxChunks == 2

(***************************************************************************)
(* Program constants.                                                      *)
(***************************************************************************)
GridSize == 32
MaxMergedSize == 96
DefaultMaxSize == 64

(***************************************************************************)
(* Images.  A PIL RGBA image is kept as its size and its alpha channel:    *)
(* alpha[<<x, y>>] \in 0..255 for 0 <= x < width, 0 <= y < height.         *)
(***************************************************************************)
Min2(a, b) == IF a <= b THEN a ELSE b
Max2(a, b) == IF a >= b THEN a ELSE b

PixelsOf(w, h) == (0 .. w - 1) \X (0 .. h - 1)

MakeImage(w, h, opaque, a) ==
    [width |-> w, height |-> h,
     alpha |-> [p \in PixelsOf(w, h) |-> IF p \in opaque THEN a ELSE 0]]

\* Image.crop((x1, y1, x2, y2)): a new image; pixels outside the source are
\* transparent.
crop(img, x1, y1, x2, y2) ==
    [width |-> x2 - x1, height |-> y2 - y1,
     alpha |-> [p \in PixelsOf(x2 - x1, y2 - y1) |->
                  LET sx == p[1] + x1
                      sy == p[2] + y1
                  IN  IF sx >= 0 /\ sx < img.width /\ sy >= 0 /\ sy < img.height
                      THEN img.alpha[<<sx, sy>>] ELSE 0]]

(***************************************************************************)
(* detect_sprite_regions                                                   *)
(***************************************************************************)
is_transparent(img, x, y) ==
    IF x < 0 \/ x >= img.width \/ y < 0 \/ y >= img.height
    THEN TRUE
    ELSE img.alpha[<<x, y>>] = 0

\* The neighbour offsets visited by the flood fill, in the order of the code.
Directions8 == << <<0, 1>>, <<0, -1>>, <<1, 0>>, <<-1, 0>>,
                  <<1, 1>>, <<-1, -1>>, <<1, -1>>, <<-1, 1>> >>
Directions == << <<0, 1>>, <<0, -1>>, <<1, 0>>, <<-1, 0>> >>

RECURSIVE push_neighbours(_, _, _, _, _)
push_neighbours(stack, visited, x, y, k) ==
    IF k > Len(Directions) THEN stack
    ELSE LET n == <<x + Directions[k][1], y + Directions[k][2]>>
         IN  push_neighbours(IF n \notin visited THEN Append(stack, n) ELSE stack,
                             visited, x, y, k + 1)

\* A test that lets a pixel already visited through.
flood_skips_transparent_only(img, visited, x, y) == is_transparent(img, x, y)

\* "if (x, y) in visited or is_transparent(x, y): continue"
flood_skips(img, visited, x, y) == <<x, y>> \in visited \/ is_transparent(img, x, y)

\* One iteration of the while loop of flood_fill ("while stack: ..."):
\* st = [stack, visited, min_x, min_y, max_x, max_y].
flood_step(img, st) ==
    LET p    == st.stack[Len(st.stack)]
        rest == SubSeq(st.stack, 1, Len(st.stack) - 1)
    IN  IF flood_skips(img, st.visited, p[1], p[2])
        THEN [st EXCEPT !.stack = rest]
        ELSE LET v == st.visited \cup {p}
             IN  [stack   |-> push_neighbours(rest, v, p[1], p[2], 1),
                  visited |-> v,
                  min_x   |-> Min2(st.min_x, p[1]),
                  min_y   |-> Min2(st.min_y, p[2]),
                  max_x   |-> Max2(st.max_x, p[1]),
                  max_y   |-> Max2(st.max_y, p[2])]

\* The while loop, run until the stack is empty.  n bounds the number of
\* iterations left; the iterations are composed by halves so that the
\* evaluation depth stays logarithmic in n.
RECURSIVE flood_loop(_, _, _)
flood_loop(img, st, n) ==
    IF st.stack = <<>> \/ n = 0 THEN st
    ELSE IF n = 1 THEN flood_step(img, st)
    ELSE flood_loop(img, flood_loop(img, st, n \div 2), n - (n \div 2))

\* Every pop either discards a pixel or visits a new one, and a visit pushes
\* at most four pixels: the loop runs at most 1 + 4 * width * height times.
flood_fill(img, visited, start_x, start_y) ==
    flood_loop(img, [stack |-> << <<start_x, start_y>> >>, visited |-> visited,
                     min_x |-> start_x, min_y |-> start_y,
                     max_x |-> start_x, max_y |-> start_y],
               1 + 4 * img.width * img.height)

\* regions.sort(key=lambda r: (r['y'], r['x'])): a stable sort.
region_key_le(a, b) == a.y < b.y \/ (a.y = b.y /\ a.x <= b.x)

RECURSIVE insert_region(_, _)
insert_region(sorted, r) ==
    IF sorted = <<>> THEN <<r>>
    ELSE IF region_key_le(sorted[Len(sorted)], r) THEN Append(sorted, r)
    ELSE Append(insert_region(SubSeq(sorted, 1, Len(sorted) - 1), r),
                sorted[Len(sorted)])

RECURSIVE sort_regions_from(_, _, _)
sort_regions_from(rs, k, acc) ==
    IF k > Len(rs) THEN acc
    ELSE sort_regions_from(rs, k + 1, insert_region(acc, rs[k]))

sort_regions(rs) == sort_regions_from(rs, 1, <<>>)

\* The scan "for y in range(height): for x in range(width)":
\* sc = [visited, regions].
scan_pixel(img, sc, x, y) ==
    IF <<x, y>> \notin sc.visited /\ ~is_transparent(img, x, y)
    THEN LET f == flood_fill(img, sc.visited, x, y)
             w == f.max_x - f.min_x + 1
             h == f.max_y - f.min_y + 1
         IN  [visited |-> f.visited,
              regions |-> IF w >= 1 /\ h >= 1
                          THEN Append(sc.regions,
                                      [x |-> f.min_x, y |-> f.min_y, w |-> w, h |-> h])
                          ELSE sc.regions]
    ELSE sc

\* Pixels lo..hi of the scan order (index i is x = i % width, y = i \div width),
\* composed by halves.
RECURSIVE scan_range(_, _, _, _)
scan_range(img, sc, lo, hi) ==
    IF lo > hi THEN sc
    ELSE IF lo = hi THEN scan_pixel(img, sc, lo % img.width, lo \div img.width)
    ELSE LET mid  == (lo + hi) \div 2
             left == scan_range(img, sc, lo, mid)
         IN  \* the test makes the first half be evaluated before the second
             IF Len(left.regions) >= 0
             THEN scan_range(img, left, mid + 1, hi)
             ELSE left

detect_sprite_regions(img) ==
    sort_regions(scan_range(img, [visited |-> {}, regions |-> <<>>],
                            0, img.width * img.height - 1).regions)

(***************************************************************************)
(* merge_adjacent_sprites                                                  *)
(***************************************************************************)
\* The loops of count_shared_pixels over a vertical edge (columns x1 | x2)
\* and over a horizontal edge (rows y1 | y2).
shared_on_columns(img, x1, x2, y_start, y_end) ==
    Cardinality({ y \in y_start .. y_end - 1 :
                    /\ 0 <= x1 /\ x1 < img.width /\ 0 <= x2 /\ x2 < img.width
                    /\ img.alpha[<<x1, y>>] > 0 /\ img.alpha[<<x2, y>>] > 0 })

shared_on_rows(img, y1, y2, x_start, x_end) ==
    Cardinality({ x \in x_start .. x_end - 1 :
                    /\ 0 <= y1 /\ y1 < img.height /\ 0 <= y2 /\ y2 < img.height
                    /\ img.alpha[<<x, y1>>] > 0 /\ img.alpha[<<x, y2>>] > 0 })

\* Returns <<shared, edge_len>>.  A case that finds no shared pixel falls
\* through to the next one, and the function ends with (0, 0).
count_shared_pixels(img, r1, r2) ==
    LET y_start == Max2(r1.y, r2.y)
        y_end   == Min2(r1.y + r1.h, r2.y + r2.h)
        x_start == Max2(r1.x, r2.x)
        x_end   == Min2(r1.x + r1.w, r2.x + r2.w)
        s1 == IF r1.x + r1.w = r2.x
              THEN shared_on_columns(img, r1.x + r1.w - 1, r2.x, y_start, y_end) ELSE 0
        s2 == IF r2.x + r2.w = r1.x
              THEN shared_on_columns(img, r1.x, r2.x + r2.w - 1, y_start, y_end) ELSE 0
        s3 == IF r1.y + r1.h = r2.y
              THEN shared_on_rows(img, r1.y + r1.h - 1, r2.y, x_start, x_end) ELSE 0
        s4 == IF r2.y + r2.h = r1.y
              THEN shared_on_rows(img, r1.y, r2.y + r2.h - 1, x_start, x_end) ELSE 0
    IN  IF s1 > 0 THEN <<s1, y_end - y_start>>
        ELSE IF s2 > 0 THEN <<s2, y_end - y_start>>
        ELSE IF s3 > 0 THEN <<s3, x_end - x_start>>
        ELSE IF s4 > 0 THEN <<s4, x_end - x_start>>
        ELSE <<0, 0>>

\* The test with "ratio > min_overlap_ratio".
should_merge_strict(img, r1, r2) ==
    IF \/ r1.x + r1.w < r2.x - 1 \/ r2.x + r2.w < r1.x - 1
       \/ r1.y + r1.h < r2.y - 1 \/ r2.y + r2.h < r1.y - 1
    THEN FALSE
    ELSE LET c == count_shared_pixels(img, r1, r2)
         IN  IF c[2] = 0 THEN FALSE ELSE 2 * c[1] > c[2]

\* ratio = shared / edge_len >= min_overlap_ratio, with min_overlap_ratio = 0.5.
should_merge(img, r1, r2) ==
    IF \/ r1.x + r1.w < r2.x - 1 \/ r2.x + r2.w < r1.x - 1
       \/ r1.y + r1.h < r2.y - 1 \/ r2.y + r2.h < r1.y - 1
    THEN FALSE
    ELSE LET c == count_shared_pixels(img, r1, r2)
         IN  IF c[2] = 0 THEN FALSE ELSE 2 * c[1] >= c[2]

\* find with path compression: the new parent array and the root.
RECURSIVE find(_, _)
find(parent, x) ==
    IF parent[x] # x
    THEN LET f == find(parent, parent[x])
         IN  [parent |-> [f.parent EXCEPT ![x] = f.root], root |-> f.root]
    ELSE [parent |-> parent, root |-> x]

\* A union that links the two indices themselves instead of their roots.
union_without_find(parent, x, y) == [parent EXCEPT ![x] = y]
union(parent, x, y) ==
    LET fx == find(parent, x)
        fy == find(fx.parent, y)
    IN  IF fx.root # fy.root
        THEN [fy.parent EXCEPT ![fx.root] = fy.root]
        ELSE fy.parent

\* "for i in range(n): for j in range(i + 1, n)": the pairs in loop order.
RECURSIVE index_pairs(_, _, _)
index_pairs(n, i, j) ==
    IF i > n THEN <<>>
    ELSE IF j > n THEN index_pairs(n, i + 1, i + 2)
    ELSE <<<<i, j>>>> \o index_pairs(n, i, j + 1)

RECURSIVE union_pairs(_, _, _, _, _)
union_pairs(img, rs, parent, pairs, k) ==
    IF k > Len(pairs) THEN parent
    ELSE LET i == pairs[k][1]
             j == pairs[k][2]
             p == IF should_merge(img, rs[i], rs[j]) THEN union(parent, i, j) ELSE parent
         IN  IF DOMAIN p = DOMAIN parent
             THEN union_pairs(img, rs, p, pairs, k + 1)
             ELSE p

\* "for i, r in enumerate(regions): root = find(i) ...": the roots of all
\* indices, found left to right on the compressed parent array.
RECURSIVE roots_from(_, _, _)
roots_from(parent, i, acc) ==
    IF i > Len(parent) THEN acc
    ELSE LET f == find(parent, i)
         IN  roots_from(f.parent, i + 1, Append(acc, f.root))

\* The keys of the dict "groups", in insertion order.
RECURSIVE group_order(_, _, _)
group_order(roots, i, acc) ==
    IF i > Len(roots) THEN acc
    ELSE group_order(roots, i + 1,
                     IF \E k \in 1 .. Len(acc) : acc[k] = roots[i]
                     THEN acc ELSE Append(acc, roots[i]))

RECURSIVE select_group(_, _, _, _)
select_group(rs, roots, root, i) ==
    IF i > Len(rs) THEN <<>>
    ELSE (IF roots[i] = root THEN <<rs[i]>> ELSE <<>>) \o select_group(rs, roots, root, i + 1)

SeqMin(S) == CHOOSE m \in S : \A n \in S : m <= n
SeqMax(S) == CHOOSE m \in S : \A n \in S : m >= n

\* The body of "for group in groups.values()": what one group adds to result.
merge_group_first_only(group) == <<group[1]>>
merge_group_uncapped(group) ==
    LET idx == 1 .. Len(group)
    IN  << [x |-> SeqMin({ group[i].x : i \in idx }),
            y |-> SeqMin({ group[i].y : i \in idx }),
            w |-> SeqMax({ group[i].x + group[i].w : i \in idx })
                      - SeqMin({ group[i].x : i \in idx }),
            h |-> SeqMax({ group[i].y + group[i].h : i \in idx })
                      - SeqMin({ group[i].y : i \in idx })] >>
merge_group(group) ==
    IF Len(group) = 1 THEN <<group[1]>>
    ELSE LET idx   == 1 .. Len(group)
             min_x == SeqMin({ group[i].x : i \in idx })
             min_y == SeqMin({ group[i].y : i \in idx })
             max_x == SeqMax({ group[i].x + group[i].w : i \in idx })
             max_y == SeqMax({ group[i].y + group[i].h : i \in idx })
             merged_w == max_x - min_x
             merged_h == max_y - min_y
         IN  IF merged_w > MaxMergedSize \/ merged_h > MaxMergedSize
             THEN group
             ELSE << [x |-> min_x, y |-> min_y, w |-> merged_w, h |-> merged_h] >>

RECURSIVE Flatten(_)
Flatten(ss) == IF ss = <<>> THEN <<>> ELSE Head(ss) \o Flatten(Tail(ss))

merge_adjacent_sprites(rs, img) ==
    IF rs = <<>> THEN rs
    ELSE LET n      == Len(rs)
             parent == union_pairs(img, rs, [i \in 1 .. n |-> i], index_pairs(n, 1, 2), 1)
             roots  == roots_from(parent, 1, <<>>)
             keys   == group_order(roots, 1, <<>>)
         IN  Flatten([g \in 1 .. Len(keys) |->
                        merge_group(select_group(rs, roots, keys[g], 1))])

(***************************************************************************)
(* split_by_grid, split_by_gaps, split_oversized_regions                   *)
(***************************************************************************)
\* "cr['x'] += dx; cr['y'] += dy" for every region of a cell.
offset_regions(rs, dx, dy) ==
    [i \in 1 .. Len(rs) |-> [rs[i] EXCEPT !.x = @ + dx, !.y = @ + dy]]

\* range(0, n, step) as a sequence.
range_step(n, step) ==
    [k \in 1 .. ((n + step - 1) \div step) |-> (k - 1) * step]

grid_cell(rg, img, gsz, gx, gy) ==
    LET cell_x == rg.x + gx
        cell_y == rg.y + gy
        cell_w == Min2(gsz, rg.w - gx)
        cell_h == Min2(gsz, rg.h - gy)
        cell   == crop(img, cell_x, cell_y, cell_x + cell_w, cell_y + cell_h)
    IN  offset_regions(detect_sprite_regions(cell), cell_x, cell_y)

\* The double loop over the cells: the list "result" before merging.
grid_cells(rg, img, gsz) ==
    LET gys == range_step(rg.h, gsz)
        gxs == range_step(rg.w, gsz)
    IN  Flatten([a \in 1 .. Len(gys) |->
           Flatten([b \in 1 .. Len(gxs) |-> grid_cell(rg, img, gsz, gxs[b], gys[a])])])

\* "if result: result = merge_adjacent_sprites(result, atlas)" and the return.
merge_cells(rg, img, result) ==
    LET merged == IF result # <<>> THEN merge_adjacent_sprites(result, img) ELSE result
    IN  IF merged # <<>> THEN merged ELSE <<rg>>

split_by_grid(rg, img, gsz) == merge_cells(rg, img, grid_cells(rg, img, gsz))

\* A row counted as a gap as soon as one of its pixels is transparent.
row_has_transparent_pixel(sub, y) == \E x \in 0 .. sub.width - 1 : sub.alpha[<<x, y>>] = 0
row_is_transparent(sub, y) == \A x \in 0 .. sub.width - 1 : sub.alpha[<<x, y>>] = 0
col_is_transparent(sub, x) == \A y \in 0 .. sub.height - 1 : sub.alpha[<<x, y>>] = 0

RECURSIVE find_h_splits(_, _, _)
find_h_splits(sub, y, acc) ==
    IF y >= sub.height THEN Append(acc, sub.height)
    ELSE find_h_splits(sub, y + 1,
                       IF row_is_transparent(sub, y) /\ acc[Len(acc)] # y
                       THEN Append(acc, y) ELSE acc)

RECURSIVE find_v_splits(_, _, _)
find_v_splits(sub, x, acc) ==
    IF x >= sub.width THEN Append(acc, sub.width)
    ELSE find_v_splits(sub, x + 1,
                       IF col_is_transparent(sub, x) /\ acc[Len(acc)] # x
                       THEN Append(acc, x) ELSE acc)

\* The body of the double loop over the gap cells: a cell thinner than two
\* pixels is skipped.
gap_cell(rg, sub, x1, y1, x2, y2) ==
    IF x2 - x1 < 2 \/ y2 - y1 < 2 THEN <<>>
    ELSE offset_regions(detect_sprite_regions(crop(sub, x1, y1, x2, y2)),
                        rg.x + x1, rg.y + y1)

split_by_gaps(rg, img, maxsz) ==
    IF rg.w <= maxsz /\ rg.h <= maxsz THEN <<rg>>
    ELSE LET sub      == crop(img, rg.x, rg.y, rg.x + rg.w, rg.y + rg.h)
             h_splits == find_h_splits(sub, 0, <<0>>)
             v_splits == find_v_splits(sub, 0, <<0>>)
         IN  IF Len(h_splits) <= 2 /\ Len(v_splits) <= 2
             THEN split_by_grid(rg, img, GridSize)
             ELSE LET result ==
                        Flatten([i \in 1 .. Len(h_splits) - 1 |->
                          Flatten([j \in 1 .. Len(v_splits) - 1 |->
                            gap_cell(rg, sub, v_splits[j], h_splits[i],
                                     v_splits[j + 1], h_splits[i + 1])])])
                  IN  IF result # <<>> THEN result ELSE <<rg>>

is_oversized(rg, maxsz) == rg.w > maxsz \/ rg.h > maxsz

split_oversized_regions(rs, img, maxsz) ==
    Flatten([i \in 1 .. Len(rs) |->
               IF is_oversized(rs[i], maxsz)
               THEN split_by_gaps(rs[i], img, maxsz)
               ELSE <<rs[i]>>])

(***************************************************************************)
(* Inputs.                                                                 *)
(***************************************************************************)
SmallImages ==
    UNION { { MakeImage(w, h, o, 255) : o \in SUBSET PixelsOf(w, h) } :
            <<w, h>> \in { s \in (1 .. MaxW) \X (1 .. MaxH) : s[1] * s[2] <= MaxPixels } }

\* The scenario image: 64x64, transparent, one opaque 10x10 square at (5,5).
SquareImage == MakeImage(64, 64, (5 .. 14) \X (5 .. 14), 255)

\* Strips wider than one grid cell: row 0 is opaque over the whole width, the
\* pixels of the other rows around the first grid boundary are free.
StripImages ==
    { MakeImage(StripW, StripH, ((0 .. StripW - 1) \X {0}) \cup o, 255) :
        o \in SUBSET ((GridSize - 2 .. GridSize) \X (1 .. StripH - 1)) }

InputImages == SmallImages \cup StripImages \cup {SquareImage}

NoRegion == [x |-> 0, y |-> 0, w |-> 0, h |-> 0]

\* atlas.json.  A file that exists is valid JSON of the expected shape or
\* not; its "regions" are the (name, coords) items in file order, and coords
\* may lack a key.
NoFile == [exists |-> FALSE, valid |-> FALSE, entries |-> <<>>]

JsonNames == { <<97, 120, 101>>,                                             \* "axe"
               <<115, 119, 111, 114, 100, 95, 119, 111, 114, 108, 100>> }    \* "sword_world"

JsonCoords ==
    { [x |-> 0, y |-> 0, w |-> 1, h |-> 1],
      [x |-> 1, y |-> 0, w |-> 1, h |-> 2],
      [x |-> 0, y |-> 1, w |-> 2, h |-> 1],
      [x |-> 0, y |-> 0, w |-> 1] }

JsonEntries == [name : JsonNames, coords : JsonCoords]

JsonEntryLists ==
    {<<>>} \cup { <<e>> : e \in JsonEntries }
           \cup { <<p[1], p[2]>> :
                    p \in { q \in JsonEntries \X JsonEntries : q[1].name # q[2].name } }

JsonFiles ==
    { [exists |-> TRUE, valid |-> FALSE, entries |-> <<>>] }
        \cup { [exists |-> TRUE, valid |-> TRUE, entries |-> l] : l \in JsonEntryLists }

\* The atlas images that come with an atlas.json: all images 2x2.
JsonImages == { MakeImage(2, 2, o, 255) : o \in SUBSET PixelsOf(2, 2) }

\* cmd_pack is not running.
NoFill == [stack |-> <<>>, visited |-> {}, min_x |-> 0, min_y |-> 0, max_x |-> 0, max_y |-> 0]

\* The driver of convert_wav.py before it runs: "bits" is not bound yet.
NoBits == -1

WavIdle ==
    /\ sfx_dir = <<>>
    /\ wav_files = <<>>
    /\ bits = NoBits
    /\ wav_log = <<>>
    /\ sfx_before = <<>>

OtherIdle ==
    /\ WavIdle
    /\ fill = NoFill
    /\ scan_at = 0
    /\ visit_log = <<>>
    /\ renames = <<>>
    /\ temp_files = <<>>
    /\ rename_at = 0
    /\ sprites_before = <<>>

PackIdle ==
    /\ sprites_dir = <<>>
    /\ glob_order = <<>>
    /\ written = {}
    /\ sprites = <<>>
    /\ duplicates = <<>>
    /\ rows = <<>>
    /\ atlas_size = <<0, 0>>
    /\ pack_regions = <<>>

InitExtract ==
    /\ pc = "loaded"
    /\ \/ atlas \in InputImages /\ atlas_json = NoFile
       \/ atlas \in JsonImages /\ atlas_json \in JsonFiles
    /\ max_size \in {1, 2, DefaultMaxSize}
    /\ regions = <<>>
    /\ region = NoRegion
    /\ grid_size = GridSize
    /\ fragments = <<>>
    /\ extracted = <<>>
    /\ extracted_pngs = <<>>
    /\ OtherIdle
    /\ PackIdle

\* The loop over data['regions'].items(): a missing key raises KeyError, which
\* ends the loop; the regions appended before stay in the list.
RECURSIVE load_entries(_, _, _)
load_entries(entries, k, acc) ==
    IF k > Len(entries) THEN acc
    ELSE IF {"x", "y", "w", "h"} \subseteq DOMAIN entries[k].coords
    THEN load_entries(entries, k + 1,
                      Append(acc, [name |-> entries[k].name,
                                   x |-> entries[k].coords.x, y |-> entries[k].coords.y,
                                   w |-> entries[k].coords.w, h |-> entries[k].coords.h]))
    ELSE acc

\* "if atlas_json_path.exists(): try: ... except Exception: (warning)".
read_atlas_json(file) ==
    IF file.exists /\ file.valid THEN load_entries(file.entries, 1, <<>>) ELSE <<>>

\* f"{n:03d}"
RECURSIVE decimal(_)
decimal(n) == IF n < 10 THEN <<48 + n>> ELSE Append(decimal(n \div 10), 48 + (n % 10))

format_03d(n) ==
    LET d == decimal(n)
    IN  IF Len(d) >= 3 THEN d ELSE [i \in 1 .. 3 - Len(d) |-> 48] \o d

\* "for i, r in enumerate(regions): r['name'] = f'sprite_{i+1:03d}'"
assign_names(rs) ==
    [i \in 1 .. Len(rs) |->
        [name |-> <<115, 112, 114, 105, 116, 101, 95>> \o format_03d(i),
         x |-> rs[i].x, y |-> rs[i].y, w |-> rs[i].w, h |-> rs[i].h]]

\* "for r in regions: sprite = atlas.crop(...); sprite.save(name.png)": the
\* files of the directory afterwards (a later file of the same name replaces
\* the earlier one).
save_sprites(img, rs) ==
    [n \in { rs[i].name : i \in 1 .. Len(rs) } |->
        LET r == rs[CHOOSE i \in 1 .. Len(rs) :
                       /\ rs[i].name = n
                       /\ \A j \in i + 1 .. Len(rs) : rs[j].name # n]
        IN  crop(img, r.x, r.y, r.x + r.w, r.y + r.h)]

ReadAtlasJson ==
    /\ pc = "loaded"
    /\ regions' = read_atlas_json(atlas_json)
    /\ pc' = "json_read"
    /\ UNCHANGED <<atlas, max_size, region, grid_size, fragments,
                   atlas_json, extracted, extracted_pngs, pack_vars, other_vars>>

\* "if not regions: regions = detect_sprite_regions(atlas)"
Detect ==
    /\ pc = "json_read"
    /\ regions = <<>>
    /\ regions' = detect_sprite_regions(atlas)
    /\ pc' = "detected"
    /\ UNCHANGED <<atlas, max_size, region, grid_size, fragments,
                   atlas_json, extracted, extracted_pngs, pack_vars, other_vars>>

\* cmd_extract: "if oversized > 0: regions = split_oversized_regions(...)".
SplitOversized ==
    /\ pc = "detected"
    /\ regions' = IF \E i \in 1 .. Len(regions) : is_oversized(regions[i], max_size)
                  THEN split_oversized_regions(regions, atlas, max_size)
                  ELSE regions
    /\ pc' = "split"
    /\ UNCHANGED <<atlas, max_size, region, grid_size, fragments,
                   atlas_json, extracted, extracted_pngs, pack_vars, other_vars>>

AssignNames ==
    /\ pc = "split"
    /\ regions' = assign_names(regions)
    /\ pc' = "named"
    /\ UNCHANGED <<atlas, max_size, region, grid_size, fragments,
                   atlas_json, extracted, extracted_pngs, pack_vars, other_vars>>

\* The final sort, the sprite files and the list of the manifest.
ExtractSprites ==
    /\ pc = "named" \/ (pc = "json_read" /\ regions # <<>>)
    /\ regions' = sort_regions(regions)
    /\ extracted' = sort_regions(regions)
    /\ extracted_pngs' = save_sprites(atlas, sort_regions(regions))
    /\ pc' = "extracted"
    /\ UNCHANGED <<atlas, max_size, region, grid_size, fragments, atlas_json, pack_vars, other_vars>>

NextExtract == ReadAtlasJson \/ Detect \/ SplitOversized \/ AssignNames \/ ExtractSprites

SpecExtract == InitExtract /\ [][NextExtract]_vars

(***************************************************************************)
(* split_by_gaps applied to any region of any image.                       *)
(***************************************************************************)
RegionsOf(img) ==
    { [x |-> x, y |-> y, w |-> w, h |-> h] :
        <<x, y, w, h>> \in { t \in (0 .. img.width - 1) \X (0 .. img.height - 1)
                                   \X (1 .. img.width) \X (1 .. img.height) :
                             t[1] + t[3] <= img.width /\ t[2] + t[4] <= img.height } }

InitGaps ==
    /\ pc = "gaps_call"
    /\ atlas \in SmallImages
    /\ max_size \in {1, 2}
    /\ region \in RegionsOf(atlas)
    /\ regions = <<>>
    /\ grid_size = GridSize
    /\ fragments = <<>>
    /\ atlas_json = NoFile
    /\ extracted = <<>>
    /\ extracted_pngs = <<>>
    /\ OtherIdle
    /\ PackIdle

SplitByGaps ==
    /\ pc = "gaps_call"
    /\ regions' = split_by_gaps(region, atlas, max_size)
    /\ pc' = "gaps_done"
    /\ UNCHANGED <<atlas, max_size, region, grid_size, fragments,
                   atlas_json, extracted, extracted_pngs, pack_vars, other_vars>>

NextGaps == SplitByGaps

SpecGaps == InitGaps /\ [][NextGaps]_vars

(***************************************************************************)
(* split_by_grid in its two steps: the cells, then merge_adjacent_sprites. *)
(***************************************************************************)
\* Two cells side by side, EdgeLen rows high.  The column next to the cell
\* boundary is free on either side, and the column behind it is opaque, so
\* that each cell holds one fragment as high as the cell.
EdgeImages ==
    { MakeImage(EdgeLen + 2, EdgeLen,
                ({EdgeLen - 2, EdgeLen + 1} \X (0 .. EdgeLen - 1)) \cup o, 255) :
        o \in SUBSET ({EdgeLen - 1, EdgeLen} \X (0 .. EdgeLen - 1)) }

\* Strips one pixel high, as wide as the merge cap and one pixel wider; the
\* two pixels at the first cell boundary are free.
WideImages ==
    { MakeImage(w, 1, ((0 .. w - 1) \ t) \X {0}, 255) :
        <<w, t>> \in {WideW - 1, WideW} \X SUBSET {GridSize - 1, GridSize} }

\* A 10x10 image cut into cells of 8: a block in the upper left cell that is
\* merged with the block below it, a bar along the right edge of that cell,
\* and a hook in the upper right cell that faces the bar on two rows of six.
HookImage ==
    MakeImage(10, 10,
              ((0 .. 5) \X (4 .. 7)) \cup ((0 .. 7) \X (8 .. 9))
                  \cup ({7} \X (0 .. 5)) \cup ({9} \X (0 .. 5))
                  \cup {<<8, 4>>, <<8, 5>>}, 255)

WholeImage(img) == [x |-> 0, y |-> 0, w |-> img.width, h |-> img.height]

InitGrid ==
    /\ pc = "grid_call"
    /\ \/ atlas \in SmallImages /\ grid_size \in {1, 2}
       \/ atlas \in EdgeImages /\ grid_size = EdgeLen
       \/ atlas \in WideImages /\ grid_size = GridSize
       \/ atlas = HookImage /\ grid_size = 8
    /\ region = WholeImage(atlas)
    /\ max_size = DefaultMaxSize
    /\ regions = <<>>
    /\ fragments = <<>>
    /\ atlas_json = NoFile
    /\ extracted = <<>>
    /\ extracted_pngs = <<>>
    /\ OtherIdle
    /\ PackIdle

GridCells ==
    /\ pc = "grid_call"
    /\ fragments' = grid_cells(region, atlas, grid_size)
    /\ pc' = "grid_cells"
    /\ UNCHANGED <<atlas, max_size, regions, region, grid_size,
                   atlas_json, extracted, extracted_pngs, pack_vars, other_vars>>

MergeAdjacent ==
    /\ pc = "grid_cells"
    /\ regions' = merge_cells(region, atlas, fragments)
    /\ pc' = "grid_done"
    /\ UNCHANGED <<atlas, max_size, region, grid_size, fragments,
                   atlas_json, extracted, extracted_pngs, pack_vars, other_vars>>

NextGrid == GridCells \/ MergeAdjacent

SpecGrid == InitGrid /\ [][NextGrid]_vars

(***************************************************************************)
(* cmd_pack: file names.  A name is the sequence of its character codes.   *)
(***************************************************************************)
SpritePrefix    == <<115, 112, 114, 105, 116, 101, 95>>                     \* "sprite_"
HiddenPrefix    == <<95>>                                                   \* "_"
PngSuffix       == <<46, 112, 110, 103>>                                    \* ".png"
NameAxe         == <<97, 120, 101>>                                         \* "axe"
NameSwordWorld  == <<115, 119, 111, 114, 100, 95, 119, 111, 114, 108, 100>> \* "sword_world"
NameSprite001   == <<115, 112, 114, 105, 116, 101, 95, 48, 48, 49>>         \* "sprite_001"
NameSprite007   == <<115, 112, 114, 105, 116, 101, 95, 48, 48, 55>>         \* "sprite_007"
NameTmpAxe      == <<95, 116, 109, 112, 95, 97, 120, 101>>                  \* "_tmp_axe"

FileNames == {NameAxe, NameSwordWorld, NameSprite001, NameSprite007, NameTmpAxe}

\* str.startswith
startswith(str, prefix) ==
    Len(str) >= Len(prefix) /\ SubSeq(str, 1, Len(prefix)) = prefix

\* a < b for Python strings (code point order).
str_lt(a, b) ==
    \E k \in 1 .. Min2(Len(a), Len(b)) + 1 :
        /\ \A i \in 1 .. k - 1 : a[i] = b[i]
        /\ \/ k > Len(a) /\ k <= Len(b)
           \/ k <= Len(a) /\ k <= Len(b) /\ a[k] < b[k]

\* Comparison of two paths of the directory: they differ in the file name only.
path_lt(a, b) == str_lt(a \o PngSuffix, b \o PngSuffix)

\* sorted(...) of distinct paths: the ascending arrangement of its elements.
RECURSIVE sorted_paths(_)
sorted_paths(names) ==
    IF names = {} THEN <<>>
    ELSE LET first == CHOOSE n \in names : \A m \in names \ {n} : path_lt(n, m)
         IN  <<first>> \o sorted_paths(names \ {first})

RECURSIVE SelectSeq2(_, _)
SelectSeq2(seq, keep) ==
    IF seq = <<>> THEN <<>>
    ELSE (IF Head(seq) \in keep THEN <<Head(seq)>> ELSE <<>>) \o SelectSeq2(Tail(seq), keep)

SeqRange(seq) == { seq[i] : i \in 1 .. Len(seq) }

\* The files that are kept: "if not f.name.startswith('_')".
visible(listing) ==
    { n \in SeqRange(listing) : ~startswith(n \o PngSuffix, HiddenPrefix) }

\* The comprehension without sorted(): the files in the order of glob.
sprite_files_unsorted(listing) == SelectSeq2(listing, visible(listing))

\* [f for f in sorted(listing) if not f.name.startswith('_')]
sprite_files_in(listing) ==
    SelectSeq2(sorted_paths(SeqRange(listing)), visible(listing))

\* sprite_files of the running command: the listing is what glob yields.
sprite_files(dir) == sprite_files_in(glob_order)

(***************************************************************************)
(* cmd_pack: images of the sprite files.  A sprite keeps a reference to    *)
(* its image: the index of the image in SpriteImages.                      *)
(***************************************************************************)
SolidImage(w, h, a) == MakeImage(w, h, PixelsOf(w, h), a)

SpriteImages ==
    << SolidImage(2, 1, 255),
       SolidImage(1, 2, 255),
       MakeImage(2, 1, {<<0, 0>>}, 255),
       SolidImage(255, 3, 255),
       SolidImage(256, 2, 255),
       SolidImage(511, 1, 128),
       SolidImage(512, 3, 255),
       SolidImage(513, 1, 255) >>

\* img.tobytes(): the pixels row by row, without the size of the image.
tobytes(img) ==
    [i \in 1 .. img.width * img.height |->
        img.alpha[<<(i - 1) % img.width, (i - 1) \div img.width>>]]

\* hashlib.md5(...).hexdigest(), taken to be free of collisions: the digest
\* stands for the bytes digested.
md5(bytes) == bytes

get_image_hash_of(img) == md5(tobytes(img))

ImageHashes == [k \in DOMAIN SpriteImages |-> get_image_hash_of(SpriteImages[k])]

\* get_image_hash(sprite['image'])
get_image_hash(image) == ImageHashes[image]

\* The loop "for png_file in sprite_files: ... sprites.append({...})".
load_sprites_in(dir, files) ==
    [i \in 1 .. Len(files) |->
        [id     |-> files[i],
         image  |-> dir[files[i]],
         width  |-> SpriteImages[dir[files[i]]].width,
         height |-> SpriteImages[dir[files[i]]].height]]

load_sprites(dir) == load_sprites_in(dir, sprite_files(dir))

(***************************************************************************)
(* cmd_pack: duplicate detection.  The dict hash_to_sprite is the sequence *)
(* of its [key, value] items in insertion order.                           *)
(***************************************************************************)
dict_has(d, key) == \E i \in 1 .. Len(d) : d[i].key = key

dict_get(d, key) == d[CHOOSE i \in 1 .. Len(d) : d[i].key = key].value

\* d[key] = value: a key already present keeps its place.
dict_set(d, key, value) ==
    IF dict_has(d, key)
    THEN [i \in 1 .. Len(d) |-> IF d[i].key = key THEN [key |-> key, value |-> value] ELSE d[i]]
    ELSE Append(d, [key |-> key, value |-> value])

dict_values(d) == [i \in 1 .. Len(d) |-> d[i].value]

is_auto_named(id) == startswith(id, SpritePrefix)

\* First pass: add named sprites (priority).
RECURSIVE first_pass(_, _, _)
first_pass(sps, k, d) ==
    IF k > Len(sps) THEN d
    ELSE first_pass(sps, k + 1,
                    IF ~is_auto_named(sps[k].id)
                    THEN dict_set(d, get_image_hash(sps[k].image), sps[k])
                    ELSE d)

\* Second pass: add unnamed only if unique.  st = [hash_to_sprite, duplicates].
RECURSIVE second_pass(_, _, _)
second_pass(sps, k, st) ==
    IF k > Len(sps) THEN st
    ELSE second_pass(sps, k + 1,
            IF is_auto_named(sps[k].id)
            THEN LET img_hash == get_image_hash(sps[k].image)
                 IN  IF dict_has(st.hash_to_sprite, img_hash)
                     THEN [st EXCEPT !.duplicates =
                              Append(@, <<sps[k].id, dict_get(st.hash_to_sprite, img_hash).id>>)]
                     ELSE [st EXCEPT !.hash_to_sprite = dict_set(@, img_hash, sps[k])]
            ELSE st)

\* One pass over all sprites, named or not: the first sprite of a content stays.
detect_duplicates_one_pass(sps) ==
    LET RECURSIVE pass(_, _)
        pass(k, st) ==
            IF k > Len(sps) THEN st
            ELSE pass(k + 1,
                    LET img_hash == get_image_hash(sps[k].image)
                    IN  IF dict_has(st.hash_to_sprite, img_hash)
                        THEN [st EXCEPT !.duplicates =
                                 Append(@, <<sps[k].id, dict_get(st.hash_to_sprite, img_hash).id>>)]
                        ELSE [st EXCEPT !.hash_to_sprite = dict_set(@, img_hash, sps[k])])
    IN  pass(1, [hash_to_sprite |-> <<>>, duplicates |-> <<>>])

detect_duplicates(sps) ==
    second_pass(sps, 1, [hash_to_sprite |-> first_pass(sps, 1, <<>>), duplicates |-> <<>>])

\* sprites = list(hash_to_sprite.values())
deduplicated_not_used(sps) == sps
deduplicated(sps) == dict_values(detect_duplicates(sps).hash_to_sprite)

(***************************************************************************)
(* cmd_pack: packing into rows, atlas size, placement.                     *)
(***************************************************************************)
max_width == 512
padding == 1

\* sprites.sort(key=lambda s: s['height'], reverse=True): stable.
RECURSIVE insert_by_height(_, _)
insert_by_height(sorted, sp) ==
    IF sorted = <<>> THEN <<sp>>
    ELSE IF sorted[Len(sorted)].height >= sp.height THEN Append(sorted, sp)
    ELSE Append(insert_by_height(SubSeq(sorted, 1, Len(sorted) - 1), sp),
                sorted[Len(sorted)])

RECURSIVE sort_by_height_from(_, _, _)
sort_by_height_from(sps, k, acc) ==
    IF k > Len(sps) THEN acc
    ELSE sort_by_height_from(sps, k + 1, insert_by_height(acc, sps[k]))

\* No sort: the sprites stay in the order of the list.
sort_by_height_not_done(sps) == sps
sort_by_height(sps) == sort_by_height_from(sps, 1, <<>>)

EmptyRow == [sprites |-> <<>>, width |-> 0, height |-> 0]

\* current_row['height'] = max(current_row['height'], sprite['height'])
row_height_last(height, sp) == sp.height
row_height(height, sp) == Max2(height, sp.height)

\* A loop body without the test for a full row: every sprite joins the current row.
pack_sprite_one_row(pk, sp, limit) ==
    [rows        |-> pk.rows,
     current_row |-> [sprites |-> Append(pk.current_row.sprites, sp),
                      width   |-> pk.current_row.width + sp.width + padding,
                      height  |-> row_height(pk.current_row.height, sp)]]
\* The body of "for sprite in sprites": pk = [rows, current_row]; limit is the
\* value of the local max_width.
pack_sprite(pk, sp, limit) ==
    LET overflow == pk.current_row.width + sp.width + padding > limit
        closed   == IF overflow /\ pk.current_row.sprites # <<>>
                    THEN Append(pk.rows, pk.current_row) ELSE pk.rows
        row      == IF overflow THEN EmptyRow ELSE pk.current_row
    IN  [rows        |-> closed,
         current_row |-> [sprites |-> Append(row.sprites, sp),
                          width   |-> row.width + sp.width + padding,
                          height  |-> row_height(row.height, sp)]]

RECURSIVE pack_from(_, _, _, _)
pack_from(sps, k, pk, limit) ==
    IF k > Len(sps) THEN pk
    ELSE pack_from(sps, k + 1, pack_sprite(pk, sps[k], limit), limit)

\* The row loop and the closing of the last row, for a value of max_width.
pack_rows_within(sps, limit) ==
    LET pk == pack_from(sps, 1, [rows |-> <<>>, current_row |-> EmptyRow], limit)
    IN  IF pk.current_row.sprites # <<>> THEN Append(pk.rows, pk.current_row) ELSE pk.rows

\* cmd_pack: max_width = 512.
pack_rows(sps) == pack_rows_within(sps, max_width)

\* A loop "while p <= n", which passes over n when n is a power of two.
next_power_of_2_above(n) ==
    LET RECURSIVE above(_)
        above(p) == IF p <= n THEN above(p * 2) ELSE p
    IN  above(1)

\* "while p < n: p *= 2"
RECURSIVE double_while_below(_, _)
double_while_below(p, n) ==
    IF p < n THEN double_while_below(p * 2, n) ELSE p

next_power_of_2(n) == double_while_below(1, n)

\* sum(row['height'] + padding for row in rows)
RECURSIVE sum_row_heights(_, _)
sum_row_heights(rws, k) ==
    IF k > Len(rws) THEN 0 ELSE rws[k].height + padding + sum_row_heights(rws, k + 1)

atlas_dimensions(rws) == <<max_width, next_power_of_2(sum_row_heights(rws, 1))>>

\* The inner loop of the placement: the entries of one row.
RECURSIVE place_row(_, _, _, _)
place_row(sps, k, x_offset, y_offset) ==
    IF k > Len(sps) THEN <<>>
    ELSE << [id |-> sps[k].id,
             rect |-> [x |-> x_offset, y |-> y_offset,
                       w |-> sps[k].width, h |-> sps[k].height]] >>
         \o place_row(sps, k + 1, x_offset + sps[k].width + padding, y_offset)

RECURSIVE place_rows(_, _, _)
place_rows(rws, k, y_offset) ==
    IF k > Len(rws) THEN <<>>
    ELSE place_row(rws[k].sprites, 1, 0, y_offset)
         \o place_rows(rws, k + 1, y_offset + rws[k].height + padding)

\* The calls atlas.paste(sprite['image'], (x_offset, y_offset)), in order.
paste_calls(rws) ==
    LET placed == place_rows(rws, 1, 0)
    IN  [i \in 1 .. Len(placed) |->
            [image |-> SpriteImages[sprites_dir[placed[i].id]],
             x |-> placed[i].rect.x, y |-> placed[i].rect.y]]

\* A dict "regions" that is emptied at the start of every row.
build_regions_last_row(rws) ==
    LET placed == IF rws = <<>> THEN <<>>
                  ELSE place_rows(<<rws[Len(rws)]>>, 1,
                                  sum_row_heights(SubSeq(rws, 1, Len(rws) - 1), 1))
    IN  [id \in { placed[i].id : i \in 1 .. Len(placed) } |->
            placed[CHOOSE i \in 1 .. Len(placed) : placed[i].id = id].rect]

\* The dict "regions": a later assignment to the same id replaces the earlier.
build_regions(rws) ==
    LET placed == place_rows(rws, 1, 0)
    IN  [id \in { placed[i].id : i \in 1 .. Len(placed) } |->
            placed[CHOOSE i \in 1 .. Len(placed) :
                      /\ placed[i].id = id
                      /\ \A j \in i + 1 .. Len(placed) : placed[j].id # id].rect]

(***************************************************************************)
(* cmd_pack, step by step.                                                 *)
(***************************************************************************)
SpriteDirs ==
    UNION { [names -> DOMAIN SpriteImages] :
            names \in { n \in SUBSET FileNames : Cardinality(n) <= MaxFiles } }

\* The orders in which glob may yield the files of a directory.
Listings(dir) ==
    { l \in [1 .. Cardinality(DOMAIN dir) -> DOMAIN dir] :
        \A i, j \in DOMAIN l : l[i] = l[j] => i = j }

\* One of them: descending by path.
RECURSIVE Reverse(_)
Reverse(seq) == IF seq = <<>> THEN <<>> ELSE Append(Reverse(Tail(seq)), Head(seq))

DescendingListing(dir) == Reverse(sorted_paths(DOMAIN dir))

InitPack ==
    /\ pc = "pack_start"
    /\ sprites_dir \in SpriteDirs
    /\ glob_order = DescendingListing(sprites_dir)
    /\ written = {}
    /\ sprites = <<>>
    /\ duplicates = <<>>
    /\ rows = <<>>
    /\ atlas_size = <<0, 0>>
    /\ pack_regions = <<>>
    /\ atlas = MakeImage(0, 0, {}, 0)
    /\ max_size = DefaultMaxSize
    /\ regions = <<>>
    /\ region = NoRegion
    /\ grid_size = GridSize
    /\ fragments = <<>>
    /\ atlas_json = NoFile
    /\ extracted = <<>>
    /\ extracted_pngs = <<>>
    /\ OtherIdle

\* "if not sprite_files: return False", else the sprites are loaded.
LoadSprites ==
    /\ pc = "pack_start"
    /\ sprites' = load_sprites(sprites_dir)
    /\ pc' = IF sprite_files(sprites_dir) = <<>> THEN "pack_failed" ELSE "pack_loaded"
    /\ UNCHANGED <<other_vars, extract_vars, sprites_dir, glob_order, written, duplicates, rows, atlas_size, pack_regions>>

DetectDuplicates ==
    /\ pc = "pack_loaded"
    /\ duplicates' = detect_duplicates(sprites).duplicates
    /\ sprites' = deduplicated(sprites)
    /\ pc' = "pack_deduped"
    /\ UNCHANGED <<other_vars, extract_vars, sprites_dir, glob_order, written, rows, atlas_size, pack_regions>>

SortByHeight ==
    /\ pc = "pack_deduped"
    /\ sprites' = sort_by_height(sprites)
    /\ pc' = "pack_sorted"
    /\ UNCHANGED <<other_vars, extract_vars, sprites_dir, glob_order, written, duplicates, rows, atlas_size, pack_regions>>

PackRows ==
    /\ pc = "pack_sorted"
    /\ rows' = pack_rows(sprites)
    /\ pc' = "pack_rows"
    /\ UNCHANGED <<other_vars, extract_vars, sprites_dir, glob_order, written, sprites, duplicates, atlas_size, pack_regions>>

BuildAtlas ==
    /\ pc = "pack_rows"
    /\ atlas_size' = atlas_dimensions(rows)
    /\ pack_regions' = build_regions(rows)
    /\ pc' = "pack_placed"
    /\ UNCHANGED <<other_vars, extract_vars, sprites_dir, glob_order, written, sprites, duplicates, rows>>

NextPack == LoadSprites \/ DetectDuplicates \/ SortByHeight \/ PackRows \/ BuildAtlas

SpecPack == InitPack /\ [][NextPack]_vars

(***************************************************************************)
(* cmd_pack to its end: the output files, and every order of glob.         *)
(***************************************************************************)
\* The files export_to_json_files updates, in the order of the updates.
EntityFiles == << "resources.json", "races.json", "monster_types.json",
                  "species.json", "world_objects.json" >>

\* Directories of small sprites: one image 1x2, one image 2x1.
RunDirs ==
    UNION { [names -> {2, 3}] :
            names \in { n \in SUBSET FileNames : Cardinality(n) <= MaxFiles } }

InitRun ==
    /\ WavIdle
    /\ pc = "pack_start"
    /\ sprites_dir \in RunDirs
    /\ glob_order \in Listings(sprites_dir)
    /\ written = {}
    /\ sprites = <<>>
    /\ duplicates = <<>>
    /\ rows = <<>>
    /\ atlas_size = <<0, 0>>
    /\ pack_regions = <<>>
    /\ atlas = MakeImage(0, 0, {}, 0)
    /\ max_size = DefaultMaxSize
    /\ regions = <<>>
    /\ region = NoRegion
    /\ grid_size = GridSize
    /\ fragments = <<>>
    /\ atlas_json = NoFile
    /\ extracted = <<>>
    /\ extracted_pngs = <<>>
    /\ fill = NoFill
    /\ scan_at = 0
    /\ visit_log = <<>>
    /\ renames = <<>>
    /\ temp_files = <<>>
    /\ rename_at = 0
    /\ sprites_before = sprites_dir

\* atlas.save(atlas_png): the file is written, or the call raises.
SaveAtlasPng ==
    /\ pc = "pack_placed"
    /\ \/ written' = written \cup {"atlas.png"} /\ pc' = "pack_png_saved"
       \/ written' = written /\ pc' = "pack_failed"
    /\ UNCHANGED <<other_vars, extract_vars, sprites_dir, glob_order, sprites, duplicates, rows,
                   atlas_size, pack_regions>>

\* open(atlas_json_path, 'w') and json.dump: written, or the call raises.
SaveAtlasJson ==
    /\ pc = "pack_png_saved"
    /\ \/ written' = written \cup {"atlas.json"} /\ pc' = "pack_json_saved"
       \/ written' = written /\ pc' = "pack_failed"
    /\ UNCHANGED <<other_vars, extract_vars, sprites_dir, glob_order, sprites, duplicates, rows,
                   atlas_size, pack_regions>>

\* export_to_json_files: every file that exists is read, updated and written
\* back, in order; reading a file that is not valid JSON, or writing it,
\* raises, and the files after it are not reached.  failed = 0: no call raises.
ExportJson ==
    /\ pc = "pack_json_saved"
    /\ \E present \in SUBSET (1 .. Len(EntityFiles)), failed \in 0 .. Len(EntityFiles) :
          /\ failed # 0 => failed \in present
          /\ written' = written \cup
                { EntityFiles[k] : k \in { i \in present : failed = 0 \/ i < failed } }
          /\ pc' = IF failed = 0 THEN "pack_exported" ELSE "pack_failed"
    /\ UNCHANGED <<other_vars, extract_vars, sprites_dir, glob_order, sprites, duplicates, rows,
                   atlas_size, pack_regions>>

\* The sprite files removed as soon as the atlas is built, before it is saved.
CleanupBeforeSave ==
    /\ pc = "pack_placed"
    /\ visible(glob_order) # {}
    /\ sprites_dir' = [n \in DOMAIN sprites_dir \ visible(glob_order) |-> sprites_dir[n]]
    /\ glob_order' = SelectSeq2(glob_order, SeqRange(glob_order) \ visible(glob_order))
    /\ pc' = pc
    /\ UNCHANGED <<other_vars, extract_vars, sprites, duplicates, rows, atlas_size, pack_regions,
                   written>>

\* "for sprite_file in current_sprites: sprite_file.unlink()", then return True.
Cleanup ==
    /\ pc = "pack_exported"
    /\ sprites_dir' = [n \in DOMAIN sprites_dir \ visible(glob_order) |-> sprites_dir[n]]
    /\ glob_order' = SelectSeq2(glob_order, SeqRange(glob_order) \ visible(glob_order))
    /\ pc' = "pack_done"
    /\ UNCHANGED <<other_vars, extract_vars, sprites, duplicates, rows, atlas_size, pack_regions,
                   written>>

NextRun == NextPack \/ SaveAtlasPng \/ SaveAtlasJson \/ ExportJson \/ Cleanup

SpecRun == InitRun /\ [][NextRun]_vars

(***************************************************************************)
(* detect_sprite_regions, one loop iteration at a time: the scan over the  *)
(* pixels and the while loop of flood_fill.                                *)
(***************************************************************************)
InitFlood ==
    /\ pc = "scan"
    /\ atlas \in SmallImages
    /\ max_size = DefaultMaxSize
    /\ regions = <<>>
    /\ region = NoRegion
    /\ grid_size = GridSize
    /\ fragments = <<>>
    /\ atlas_json = NoFile
    /\ extracted = <<>>
    /\ extracted_pngs = <<>>
    /\ OtherIdle
    /\ PackIdle

\* The body of "for y ... for x ...": a pixel that is opaque and not visited
\* starts flood_fill, any other pixel is passed over.
ScanPixel ==
    /\ pc = "scan"
    /\ scan_at < atlas.width * atlas.height
    /\ LET x == scan_at % atlas.width
           y == scan_at \div atlas.width
       IN  IF <<x, y>> \notin fill.visited /\ ~is_transparent(atlas, x, y)
           THEN /\ fill' = [stack |-> << <<x, y>> >>, visited |-> fill.visited,
                            min_x |-> x, min_y |-> y, max_x |-> x, max_y |-> y]
                /\ pc' = "flood"
                /\ scan_at' = scan_at
           ELSE /\ scan_at' = scan_at + 1
                /\ UNCHANGED <<pc, fill>>
    /\ UNCHANGED <<extract_vars, pack_vars, visit_log, renames, temp_files, rename_at, sprites_before, wav_vars>>

\* One iteration of "while stack:".  The log takes the pixel when the body
\* gets past the continue, with the number of the region being filled.
FloodStep ==
    /\ pc = "flood"
    /\ fill.stack # <<>>
    /\ LET p == fill.stack[Len(fill.stack)]
       IN  visit_log' = IF flood_skips(atlas, fill.visited, p[1], p[2])
                        THEN visit_log
                        ELSE Append(visit_log, [pixel |-> p, region |-> Len(regions) + 1])
    /\ fill' = flood_step(atlas, fill)
    /\ UNCHANGED <<pc, extract_vars, pack_vars, scan_at, renames, temp_files, rename_at, sprites_before, wav_vars>>

\* The stack is empty: flood_fill returns and the region is appended.
FloodReturn ==
    /\ pc = "flood"
    /\ fill.stack = <<>>
    /\ LET w == fill.max_x - fill.min_x + 1
           h == fill.max_y - fill.min_y + 1
       IN  regions' = IF w >= 1 /\ h >= 1
                      THEN Append(regions, [x |-> fill.min_x, y |-> fill.min_y, w |-> w, h |-> h])
                      ELSE regions
    /\ scan_at' = scan_at + 1
    /\ pc' = "scan"
    /\ UNCHANGED <<atlas, max_size, region, grid_size, fragments, atlas_json, extracted,
                   extracted_pngs, pack_vars, fill, visit_log, renames, temp_files, rename_at, sprites_before, wav_vars>>

\* The scan is over: the regions are sorted and returned.
ScanReturn ==
    /\ pc = "scan"
    /\ scan_at = atlas.width * atlas.height
    /\ regions' = sort_regions(regions)
    /\ pc' = "scan_done"
    /\ UNCHANGED <<atlas, max_size, region, grid_size, fragments, atlas_json, extracted,
                   extracted_pngs, pack_vars, other_vars>>

NextFlood == ScanPixel \/ FloodStep \/ FloodReturn \/ ScanReturn

SpecFlood == InitFlood /\ [][NextFlood]_vars

\* The function runs on: a loop iteration that can be taken is taken.
SpecFloodLive == SpecFlood /\ WF_vars(NextFlood)

(***************************************************************************)
(* The row loop on a list of five sprites 100 wide, of heights 40, 30, 30, *)
(* 20 and 10, in every order of the list, with max_width = 512 as in       *)
(* cmd_pack and with max_width = 250.                                      *)
(***************************************************************************)
\* The row loop reads the width and the height of a sprite only: the five
\* sprites have no image among SpriteImages.
FiveSprites ==
    << [id |-> NameAxe,        image |-> 0, width |-> 100, height |-> 40],
       [id |-> NameSwordWorld, image |-> 0, width |-> 100, height |-> 30],
       [id |-> NameSprite001,  image |-> 0, width |-> 100, height |-> 30],
       [id |-> NameSprite007,  image |-> 0, width |-> 100, height |-> 20],
       [id |-> NameTmpAxe,     image |-> 0, width |-> 100, height |-> 10] >>

FiveSpriteLists ==
    { [i \in DOMAIN FiveSprites |-> FiveSprites[p[i]]] : p \in Permutations(DOMAIN FiveSprites) }

InitRows ==
    /\ pc = "pack_deduped"
    /\ sprites \in FiveSpriteLists
    /\ sprites_dir = <<>>
    /\ glob_order = <<>>
    /\ written = {}
    /\ duplicates = <<>>
    /\ rows = <<>>
    /\ atlas_size = <<0, 0>>
    /\ pack_regions = <<>>
    /\ atlas = MakeImage(0, 0, {}, 0)
    /\ max_size = DefaultMaxSize
    /\ regions = <<>>
    /\ region = NoRegion
    /\ grid_size = GridSize
    /\ fragments = <<>>
    /\ atlas_json = NoFile
    /\ extracted = <<>>
    /\ extracted_pngs = <<>>
    /\ OtherIdle

\* The row loop with the local max_width set to 250.
PackRowsWithin250 ==
    /\ pc = "pack_sorted"
    /\ rows' = pack_rows_within(sprites, 250)
    /\ pc' = "pack_rows_250"
    /\ UNCHANGED <<other_vars, extract_vars, sprites_dir, glob_order, written, sprites, duplicates,
                   atlas_size, pack_regions>>

NextRows == SortByHeight \/ PackRows \/ PackRowsWithin250

SpecRows == InitRows /\ [][NextRows]_vars
(***************************************************************************)
(* apply_sprite_renames (and the same two loops in do_POST): the files of  *)
(* res/sprites are renamed through temporary names.                        *)
(***************************************************************************)
TmpPrefix == <<95, 116, 109, 112, 95>>                                      \* "_tmp_"

\* The temporary name that keeps its own name: the file goes to its final name at once.
temp_name_unchanged(old_name) == old_name

\* f"_tmp_{old_name}"
temp_name(old_name) == TmpPrefix \o old_name

\* Path.rename on POSIX: the file takes the new name, and replaces a file
\* that has it.
rename_file(dir, src, dst) ==
    [n \in (DOMAIN dir \ {src}) \cup {dst} |-> IF n = dst THEN dir[src] ELSE dir[n]]

\* {old: new for old, new in mappings.items() if old != new}
RECURSIVE only_renames(_)
only_renames(items) ==
    IF items = <<>> THEN <<>>
    ELSE (IF Head(items).key # Head(items).value THEN <<Head(items)>> ELSE <<>>)
         \o only_renames(Tail(items))

\* The names a mapping is about.
RenameNames == {NameAxe, NameSwordWorld, NameSprite001, NameTmpAxe}

\* Every file has a content of its own: the image of its place in the list.
RenameContents == <<NameAxe, NameSwordWorld, NameSprite001, NameTmpAxe>>

RenameDirs ==
    { [n \in names |-> CHOOSE k \in DOMAIN RenameContents : RenameContents[k] = n] :
        names \in { S \in SUBSET RenameNames : Cardinality(S) <= MaxFiles } }

\* mappings.json: a JSON object, old name -> new name, its items in file order.
Mappings ==
    UNION { { m \in [1 .. n -> [key : RenameNames, value : RenameNames]] :
                \A i, j \in 1 .. n : m[i].key = m[j].key => i = j } :
            n \in 0 .. MaxFiles }

InitRename ==
    /\ WavIdle
    /\ pc = "rename_start"
    /\ sprites_dir \in RenameDirs
    /\ sprites_before = sprites_dir
    /\ renames \in Mappings
    /\ temp_files = <<>>
    /\ rename_at = 0
    /\ fill = NoFill
    /\ scan_at = 0
    /\ visit_log = <<>>
    /\ glob_order = <<>>
    /\ written = {}
    /\ sprites = <<>>
    /\ duplicates = <<>>
    /\ rows = <<>>
    /\ atlas_size = <<0, 0>>
    /\ pack_regions = <<>>
    /\ atlas = MakeImage(0, 0, {}, 0)
    /\ max_size = DefaultMaxSize
    /\ regions = <<>>
    /\ region = NoRegion
    /\ grid_size = GridSize
    /\ fragments = <<>>
    /\ atlas_json = NoFile
    /\ extracted = <<>>
    /\ extracted_pngs = <<>>

\* The filter, and "if not renames: ... return".
FilterRenames ==
    /\ pc = "rename_start"
    /\ renames' = only_renames(renames)
    /\ rename_at' = 1
    /\ pc' = IF only_renames(renames) = <<>> THEN "rename_done" ELSE "rename_phase1"
    /\ UNCHANGED <<extract_vars, pack_vars, fill, scan_at, visit_log, temp_files,
                   sprites_before, wav_vars>>

\* Phase 1, one key: "if src.exists(): src.rename(tmp); temp_files[old_name] = tmp".
MoveToTemp ==
    /\ pc = "rename_phase1"
    /\ LET old_name == renames[rename_at].key
           tmp      == temp_name(old_name)
       IN  IF old_name \in DOMAIN sprites_dir
           THEN /\ sprites_dir' = rename_file(sprites_dir, old_name, tmp)
                /\ temp_files' = dict_set(temp_files, old_name, tmp)
           ELSE UNCHANGED <<sprites_dir, temp_files>>
    /\ IF rename_at = Len(renames)
       THEN rename_at' = 1 /\ pc' = "rename_phase2"
       ELSE rename_at' = rename_at + 1 /\ pc' = pc
    /\ UNCHANGED <<extract_vars, glob_order, sprites, duplicates, rows, atlas_size,
                   pack_regions, written, fill, scan_at, visit_log, renames,
                   sprites_before, wav_vars>>

\* Phase 2, one item: "if old_name in temp_files: tmp.rename(dst)".  The
\* rename of a file that is not there raises FileNotFoundError.
MoveToFinal ==
    /\ pc = "rename_phase2"
    /\ LET old_name == renames[rename_at].key
           new_name == renames[rename_at].value
           missing  == /\ dict_has(temp_files, old_name)
                       /\ dict_get(temp_files, old_name) \notin DOMAIN sprites_dir
       IN  /\ sprites_dir' =
                 IF dict_has(temp_files, old_name) /\ ~missing
                 THEN rename_file(sprites_dir, dict_get(temp_files, old_name), new_name)
                 ELSE sprites_dir
           /\ pc' = IF missing THEN "rename_failed"
                    ELSE IF rename_at = Len(renames) THEN "rename_done" ELSE pc
           /\ rename_at' = IF missing \/ rename_at = Len(renames)
                           THEN rename_at ELSE rename_at + 1
    /\ UNCHANGED <<extract_vars, glob_order, sprites, duplicates, rows, atlas_size,
                   pack_regions, written, fill, scan_at, visit_log, renames, temp_files,
                   sprites_before, wav_vars>>

NextRename == FilterRenames \/ MoveToTemp \/ MoveToFinal

SpecRename == InitRename /\ [][NextRename]_vars

(***************************************************************************)
(* cmd_pack, then cmd_extract on the atlas.png and atlas.json it wrote,    *)
(* then cmd_pack on the sprites extracted.                                 *)
(***************************************************************************)
NameBow == <<98, 111, 119>>                                                 \* "bow"

RoundTripNames == {NameAxe, NameBow, NameSwordWorld, NameSprite001}

\* Directories of small sprites: the images 2x1, 1x2 and 2x1 with one
\* transparent pixel.
RoundTripDirs ==
    UNION { [names -> {1, 2, 3}] :
            names \in { n \in SUBSET RoundTripNames : Cardinality(n) <= MaxFiles } }

\* Image.new('RGBA', size, (0, 0, 0, 0)) and the calls of atlas.paste in
\* order: a pixel has the alpha of the last image pasted over it.
atlas_image(size, pastes) ==
    [width |-> size[1], height |-> size[2],
     alpha |-> [p \in PixelsOf(size[1], size[2]) |->
                  LET over == { i \in 1 .. Len(pastes) :
                                  /\ pastes[i].x <= p[1]
                                  /\ p[1] < pastes[i].x + pastes[i].image.width
                                  /\ pastes[i].y <= p[2]
                                  /\ p[2] < pastes[i].y + pastes[i].image.height }
                  IN  IF over = {} THEN 0
                      ELSE LET last == SeqMax(over)
                           IN  pastes[last].image.alpha[<<p[1] - pastes[last].x,
                                                          p[2] - pastes[last].y>>]]]

\* json.dump of {'atlasId': 'atlas', 'regions': regions}: the items of the
\* dict in insertion order, the order of placement.
atlas_json_of(rws) ==
    LET placed == place_rows(rws, 1, 0)
    IN  [exists |-> TRUE, valid |-> TRUE,
         entries |-> [i \in 1 .. Len(placed) |->
                         [name |-> placed[i].id, coords |-> placed[i].rect]]]

\* The image of a sprite file, as the sprite list refers to it.
image_index(img) == CHOOSE k \in DOMAIN SpriteImages : SpriteImages[k] = img

InitRoundTrip ==
    /\ WavIdle
    /\ pc = "pack_start"
    /\ sprites_dir \in RoundTripDirs
    /\ sprites_before = sprites_dir
    /\ glob_order = DescendingListing(sprites_dir)
    /\ written = {}
    /\ sprites = <<>>
    /\ duplicates = <<>>
    /\ rows = <<>>
    /\ atlas_size = <<0, 0>>
    /\ pack_regions = <<>>
    /\ atlas = MakeImage(0, 0, {}, 0)
    /\ max_size = DefaultMaxSize
    /\ regions = <<>>
    /\ region = NoRegion
    /\ grid_size = GridSize
    /\ fragments = <<>>
    /\ atlas_json = NoFile
    /\ extracted = <<>>
    /\ extracted_pngs = <<>>
    /\ fill = NoFill
    /\ scan_at = 0
    /\ visit_log = <<>>
    /\ renames = <<>>
    /\ temp_files = <<>>
    /\ rename_at = 0

\* The end of the first cmd_pack, every step of it succeeding: atlas.png and
\* atlas.json are written, the entity files updated, the sprite files
\* removed.  The variable atlas holds the image written to atlas.png.
SaveAndCleanup ==
    /\ pc = "pack_placed"
    /\ extracted = <<>>
    /\ atlas' = atlas_image(atlas_size, paste_calls(rows))
    /\ atlas_json' = atlas_json_of(rows)
    /\ written' = written \cup {"atlas.png", "atlas.json"}
    /\ sprites_dir' = [n \in DOMAIN sprites_dir \ visible(glob_order) |-> sprites_dir[n]]
    /\ glob_order' = SelectSeq2(glob_order, SeqRange(glob_order) \ visible(glob_order))
    /\ pc' = "pack_done"
    /\ UNCHANGED <<max_size, regions, region, grid_size, fragments, extracted,
                   extracted_pngs, sprites, duplicates, rows, atlas_size, pack_regions,
                   other_vars>>

\* cmd_extract starts: atlas.png is opened, regions = [].
LoadAtlas ==
    /\ pc = "pack_done"
    /\ atlas_json.exists
    /\ regions' = <<>>
    /\ pc' = "loaded"
    /\ UNCHANGED <<atlas, max_size, region, grid_size, fragments, atlas_json, extracted,
                   extracted_pngs, pack_vars, other_vars>>

\* cmd_pack is called again: res/sprites holds the files cmd_extract saved
\* (it removed every PNG file that was there before).
PackAgain ==
    /\ pc = "extracted"
    /\ sprites_dir' = [n \in DOMAIN extracted_pngs |-> image_index(extracted_pngs[n])]
    /\ glob_order' = DescendingListing(sprites_dir')
    /\ sprites' = <<>>
    /\ duplicates' = <<>>
    /\ rows' = <<>>
    /\ atlas_size' = <<0, 0>>
    /\ pack_regions' = <<>>
    /\ pc' = "pack_start"
    /\ UNCHANGED <<extract_vars, written, other_vars>>

NextRoundTrip ==
    NextPack \/ SaveAndCleanup \/ LoadAtlas \/ ReadAtlasJson \/ ExtractSprites \/ PackAgain

SpecRoundTrip == InitRoundTrip /\ [][NextRoundTrip]_vars

(***************************************************************************)
(* tests/tools/convert_wav.py: convert_24bit_to_16bit and the driver that  *)
(* runs it on every file of res/sfx.  A file is its two header tags and    *)
(* its chunks; of a chunk the model keeps the id and, for a "fmt " chunk,  *)
(* audio_format and bits_per_sample.  Sample data is not modelled.         *)
(***************************************************************************)
NameHit == <<104, 105, 116>>                                            \* "hit"
NameJump == <<106, 117, 109, 112>>                                      \* "jump"
BackupSuffix == <<95, 98, 97, 99, 107, 117, 112>>                       \* "_backup"
NameHitBackup == NameHit \o BackupSuffix                                \* "hit_backup"

\* str.endswith
endswith(str, suffix) ==
    Len(str) >= Len(suffix) /\ SubSeq(str, Len(str) - Len(suffix) + 1, Len(str)) = suffix

WavPath(stem) == [stem |-> stem, suffix |-> ".wav"]

\* wav_file.with_suffix('.wav.bak')
with_suffix_bak(path) == [stem |-> path.stem, suffix |-> ".wav.bak"]

FmtChunks == [chunk_id : {"fmt "}, audio_format : {1, 3}, bits_per_sample : {16, 24}]
DataChunk == [chunk_id |-> "data", audio_format |-> 0, bits_per_sample |-> 0]
ListChunk == [chunk_id |-> "LIST", audio_format |-> 0, bits_per_sample |-> 0]
Chunks == FmtChunks \cup {DataChunk, ListChunk}

WavHeaders == {<<"RIFF", "WAVE">>, <<"RIFX", "WAVE">>, <<"RIFF", "AVI ">>}

WavContents ==
    UNION { [riff : {h[1]}, wave : {h[2]}, chunks : [1 .. n -> Chunks]] :
            h \in WavHeaders, n \in 0 .. MaxChunks }

Fmt(format, width) ==
    [chunk_id |-> "fmt ", audio_format |-> format, bits_per_sample |-> width]

WavOf(chunks) == [riff |-> "RIFF", wave |-> "WAVE", chunks |-> chunks]

\* The second file of a directory: a 24-bit PCM file, a 16-bit PCM file and a
\* file without chunks, which leave bits at 24, at 16 and as it was.
OtherContents == {WavOf(<<Fmt(1, 24), DataChunk>>), WavOf(<<Fmt(1, 16), DataChunk>>), WavOf(<<>>)}

WavStems == {NameHit, NameJump, NameHitBackup}

SfxDirs ==
    { [p \in {WavPath(s)} |-> c] : s \in WavStems, c \in WavContents }
    \cup UNION { { [p \in {WavPath(s), WavPath(t)} |-> IF p = WavPath(s) THEN c ELSE d] :
                     t \in WavStems \ {s}, c \in WavContents, d \in OtherContents } :
                   s \in WavStems }

\* The first loop of convert_24bit_to_16bit: the index of the "fmt " chunk, or
\* the ValueError raised.
RECURSIVE find_fmt_chunk(_, _)
find_fmt_chunk(chunks, k) ==
    IF k > Len(chunks) THEN [raised |-> TRUE, error |-> "fmt chunk not found", at |-> 0]
    ELSE IF chunks[k].chunk_id = "fmt "
    THEN IF chunks[k].audio_format # 1
         THEN [raised |-> TRUE, error |-> "Unsupported audio format", at |-> 0]
         ELSE IF chunks[k].bits_per_sample # 24
         THEN [raised |-> TRUE, error |-> "Expected 24-bit", at |-> 0]
         ELSE [raised |-> FALSE, error |-> "", at |-> k]
    ELSE find_fmt_chunk(chunks, k + 1)

\* The second loop, which starts after the "fmt " chunk.
RECURSIVE find_data_chunk(_, _)
find_data_chunk(chunks, k) ==
    IF k > Len(chunks) THEN [raised |-> TRUE, error |-> "data chunk not found", at |-> 0]
    ELSE IF chunks[k].chunk_id = "data" THEN [raised |-> FALSE, error |-> "", at |-> k]
    ELSE find_data_chunk(chunks, k + 1)

\* The file written by the second "with open": 16-bit PCM, a fmt and a data chunk.
Converted == WavOf(<<Fmt(1, 16), DataChunk>>)

\* convert_24bit_to_16bit on the content of input_path: the exception raised
\* while reading, or the content written to output_path.
convert_24bit_to_16bit(input) ==
    IF input.riff # "RIFF" THEN [raised |-> TRUE, error |-> "Not a RIFF file", output |-> <<>>]
    ELSE IF input.wave # "WAVE" THEN [raised |-> TRUE, error |-> "Not a WAVE file", output |-> <<>>]
    ELSE LET fmt == find_fmt_chunk(input.chunks, 1)
         IN  IF fmt.raised THEN [raised |-> TRUE, error |-> fmt.error, output |-> <<>>]
             ELSE LET data == find_data_chunk(input.chunks, fmt.at + 1)
                  IN  IF data.raised
                      THEN [raised |-> TRUE, error |-> data.error, output |-> <<>>]
                      ELSE [raised |-> FALSE, error |-> "", output |-> <<Converted>>]

\* The driver's own scan, after f.seek(12): bits_per_sample of the first
\* "fmt " chunk; without such a chunk "bits" keeps the value it had.
RECURSIVE read_bits(_, _, _)
read_bits(chunks, k, old) ==
    IF k > Len(chunks) THEN old
    ELSE IF chunks[k].chunk_id = "fmt " THEN chunks[k].bits_per_sample
    ELSE read_bits(chunks, k + 1, old)

\* Path.rename and open(path, 'wb') on the directory.
rename_path(dir, src, dst) ==
    [p \in (DOMAIN dir \ {src}) \cup {dst} |-> IF p = dst THEN dir[src] ELSE dir[p]]

write_path(dir, path, content) ==
    [p \in DOMAIN dir \cup {path} |-> IF p = path THEN content ELSE dir[p]]

WavEntry(path, outcome, error) == [path |-> path, outcome |-> outcome, error |-> error]

\* sfx_dir.glob('*.wav'), in any order.
GlobWav(dir) ==
    LET wavs == { p \in DOMAIN dir : p.suffix = ".wav" }
    IN  { q \in [1 .. Cardinality(wavs) -> wavs] : \A i, j \in DOMAIN q : q[i] = q[j] => i = j }

InitWav ==
    /\ pc = "wav_loop"
    /\ sfx_dir \in SfxDirs
    /\ wav_files \in GlobWav(sfx_dir)
    /\ bits = NoBits
    /\ wav_log = <<>>
    /\ sfx_before = sfx_dir
    /\ fill = NoFill
    /\ scan_at = 0
    /\ visit_log = <<>>
    /\ renames = <<>>
    /\ temp_files = <<>>
    /\ rename_at = 0
    /\ sprites_before = <<>>
    /\ atlas = MakeImage(0, 0, {}, 0)
    /\ max_size = DefaultMaxSize
    /\ regions = <<>>
    /\ region = NoRegion
    /\ grid_size = GridSize
    /\ fragments = <<>>
    /\ atlas_json = NoFile
    /\ extracted = <<>>
    /\ extracted_pngs = <<>>
    /\ PackIdle

WavUnchanged ==
    UNCHANGED <<extract_vars, pack_vars, fill, scan_at, visit_log, renames, temp_files,
                rename_at, sprites_before, sfx_before>>

\* if wav_file.stem.endswith('_backup'): continue
SkipBackupName ==
    /\ pc = "wav_loop"
    /\ wav_files # <<>>
    /\ endswith(Head(wav_files).stem, BackupSuffix)
    /\ wav_files' = Tail(wav_files)
    /\ wav_log' = Append(wav_log, WavEntry(Head(wav_files), "backup_name", ""))
    /\ UNCHANGED <<pc, sfx_dir, bits>>
    /\ WavUnchanged

\* The "with open" of the driver up to "if bits == 24".
ReadBits ==
    /\ pc = "wav_loop"
    /\ wav_files # <<>>
    /\ ~endswith(Head(wav_files).stem, BackupSuffix)
    /\ bits' = read_bits(sfx_dir[Head(wav_files)].chunks, 1, bits)
    /\ pc' = "wav_bits_read"
    /\ UNCHANGED <<sfx_dir, wav_files, wav_log>>
    /\ WavUnchanged

\* "if bits == 24" with bits not bound: NameError, caught by the except clause.
BitsNotBound ==
    /\ pc = "wav_bits_read"
    /\ bits = NoBits
    /\ wav_files' = Tail(wav_files)
    /\ wav_log' = Append(wav_log, WavEntry(Head(wav_files), "error", "name 'bits' is not defined"))
    /\ pc' = "wav_loop"
    /\ UNCHANGED <<sfx_dir, bits>>
    /\ WavUnchanged

\* else: print("Skipping ...")
SkipNot24 ==
    /\ pc = "wav_bits_read"
    /\ bits \notin {NoBits, 24}
    /\ wav_files' = Tail(wav_files)
    /\ wav_log' = Append(wav_log, WavEntry(Head(wav_files), "skipped", ""))
    /\ pc' = "wav_loop"
    /\ UNCHANGED <<sfx_dir, bits>>
    /\ WavUnchanged

\* wav_file.rename(backup)
BackupOriginal ==
    /\ pc = "wav_bits_read"
    /\ bits = 24
    /\ sfx_dir' = rename_path(sfx_dir, Head(wav_files), with_suffix_bak(Head(wav_files)))
    /\ pc' = "wav_backed_up"
    /\ UNCHANGED <<wav_files, bits, wav_log>>
    /\ WavUnchanged

\* convert_24bit_to_16bit(backup, output), and the except clause when it raises.
Convert ==
    /\ pc = "wav_backed_up"
    /\ LET wav_file == Head(wav_files)
           result == convert_24bit_to_16bit(sfx_dir[with_suffix_bak(wav_file)])
       IN  IF result.raised
           THEN /\ sfx_dir' = sfx_dir
                /\ wav_log' = Append(wav_log, WavEntry(wav_file, "rejected", result.error))
           ELSE /\ sfx_dir' = write_path(sfx_dir, wav_file, result.output[1])
                /\ wav_log' = Append(wav_log, WavEntry(wav_file, "converted", ""))
    /\ wav_files' = Tail(wav_files)
    /\ pc' = "wav_loop"
    /\ UNCHANGED bits
    /\ WavUnchanged

\* The end of the for loop.
DriverReturn ==
    /\ pc = "wav_loop"
    /\ wav_files = <<>>
    /\ pc' = "wav_done"
    /\ UNCHANGED <<sfx_dir, wav_files, bits, wav_log>>
    /\ WavUnchanged

NextWav ==
    SkipBackupName \/ ReadBits \/ BitsNotBound \/ SkipNot24 \/ BackupOriginal \/ Convert
        \/ DriverReturn

SpecWav == InitWav /\ [][NextWav]_vars
Init == InitExtract \/ InitGaps \/ InitGrid \/ InitPack \/ InitRun \/ InitRows
           \/ InitFlood \/ InitRename \/ InitRoundTrip \/ InitWav

Next == NextExtract \/ NextGaps \/ NextGrid \/ NextRun \/ NextRows \/ NextFlood
           \/ NextRename \/ NextRoundTrip \/ NextWav

Spec == Init /\ [][Next]_vars

(***************************************************************************)
(* Properties of detection and splitting.                                  *)
(***************************************************************************)
Opaque(img) == { p \in PixelsOf(img.width, img.height) : img.alpha[p] > 0 }

Adjacent4(p, q) ==
    \/ p[1] = q[1] /\ (p[2] = q[2] + 1 \/ q[2] = p[2] + 1)
    \/ p[2] = q[2] /\ (p[1] = q[1] + 1 \/ q[1] = p[1] + 1)

\* The 4-connected group of O that contains S.
RECURSIVE Grow(_, _)
Grow(S, O) ==
    LET T == S \cup { q \in O : \E p \in S : Adjacent4(p, q) }
    IN  IF T = S THEN S ELSE Grow(T, O)

RECURSIVE Groups(_)
Groups(O) ==
    IF O = {} THEN {}
    ELSE LET p == CHOOSE q \in O : TRUE
             G == Grow({p}, O)
         IN  {G} \cup Groups(O \ G)

TightBox(G) ==
    LET x0 == SeqMin({ p[1] : p \in G })
        y0 == SeqMin({ p[2] : p \in G })
    IN  [x |-> x0, y |-> y0,
         w |-> SeqMax({ p[1] : p \in G }) - x0 + 1,
         h |-> SeqMax({ p[2] : p \in G }) - y0 + 1]

InsideRegion(p, r) ==
    r.x <= p[1] /\ p[1] < r.x + r.w /\ r.y <= p[2] /\ p[2] < r.y + r.h

\* The opaque pixels of img that lie inside some region of rs.
OpaqueIn(img, rs) ==
    { p \in Opaque(img) : \E i \in 1 .. Len(rs) : InsideRegion(p, rs[i]) }

\* C1: detect_sprite_regions returns exactly one region per 4-connected
\* group of pixels with alpha > 0, each the tight bounding box of its group;
\* the 64x64 image with one opaque 10x10 square at (5,5) yields the single
\* region {x:5, y:5, w:10, h:10}, and an isolated opaque pixel a 1x1 region.
C1_DetectOneTightBoxPerGroup ==
    pc = "detected" =>
        LET groups == Groups(Opaque(atlas))
        IN  /\ Len(regions) = Cardinality(groups)
            /\ \A G \in groups : \E i \in 1 .. Len(regions) : regions[i] = TightBox(G)
            /\ \A i \in 1 .. Len(regions) : \E G \in groups : regions[i] = TightBox(G)
            /\ atlas = SquareImage =>
                   regions = << [x |-> 5, y |-> 5, w |-> 10, h |-> 10] >>
            /\ \A G \in groups : Cardinality(G) = 1 =>
                   \E i \in 1 .. Len(regions) :
                       \E p \in G : regions[i] = [x |-> p[1], y |-> p[2], w |-> 1, h |-> 1]

\* An image with several groups, one of them an isolated pixel that touches
\* another group only diagonally, has been detected.
C1_Witness ==
    /\ pc = "detected"
    /\ Len(regions) >= 2
    /\ \E p \in Opaque(atlas), q \in Opaque(atlas) :
          /\ p[1] + 1 = q[1] /\ p[2] + 1 = q[2]
          /\ Grow({p}, Opaque(atlas)) = {p}
    /\ \E i \in 1 .. Len(regions) : regions[i].w >= 2 /\ regions[i].h >= 2

\* C2: after detection and split_oversized_regions, the opaque pixels covered
\* by the output regions are exactly the opaque pixels of the source image.
C2_SplitKeepsOpaquePixels ==
    pc = "split" => OpaqueIn(atlas, regions) = Opaque(atlas)

\* A group wider than one grid cell was oversized and has been split by the
\* grid, and the list of regions differs from the detected one.
C2_Witness ==
    /\ pc = "split"
    /\ Len(regions) >= 2
    /\ \E r \in { detect_sprite_regions(atlas)[i] :
                    i \in 1 .. Len(detect_sprite_regions(atlas)) } :
          /\ r.w > GridSize
          /\ is_oversized(r, max_size)
          /\ \A i \in 1 .. Len(regions) : regions[i] # r

\* C3: for any region passed to split_by_gaps, the opaque pixels inside the
\* returned sub-regions are exactly the opaque pixels inside the region.
C3_GapsKeepOpaquePixels ==
    pc = "gaps_done" => OpaqueIn(atlas, regions) = OpaqueIn(atlas, <<region>>)

(***************************************************************************)
(* Properties of merge_adjacent_sprites.                                   *)
(***************************************************************************)
\* The bounding box of a non-empty set of regions.
BoundingBox(S) ==
    LET x0 == SeqMin({ r.x : r \in S })
        y0 == SeqMin({ r.y : r \in S })
    IN  [x |-> x0, y |-> y0,
         w |-> SeqMax({ r.x + r.w : r \in S }) - x0,
         h |-> SeqMax({ r.y + r.h : r \in S }) - y0]

WithinCap(r) == r.w <= 96 /\ r.h <= 96

SharedRows(a, b) == Max2(a.y, b.y) .. Min2(a.y + a.h, b.y + b.h) - 1
SharedCols(a, b) == Max2(a.x, b.x) .. Min2(a.x + a.w, b.x + b.w) - 1

\* a lies left of b (above b) with d pixels between the two boxes: d = 0 is
\* edge to edge, d = 1 a gap of one pixel, d = -1 an overlap of one pixel.
LeftOf(a, b, d) == a.x + a.w + d = b.x /\ SharedRows(a, b) # {}
Above(a, b, d) == a.y + a.h + d = b.y /\ SharedCols(a, b) # {}

\* <<number of facing pixel pairs opaque on both sides, length of the shared
\* edge>>, for a left of b and for a above b.
FacingH(img, a, b) ==
    << Cardinality({ y \in SharedRows(a, b) :
                       img.alpha[<<a.x + a.w - 1, y>>] > 0 /\ img.alpha[<<b.x, y>>] > 0 }),
       Cardinality(SharedRows(a, b)) >>
FacingV(img, a, b) ==
    << Cardinality({ x \in SharedCols(a, b) :
                       img.alpha[<<x, a.y + a.h - 1>>] > 0 /\ img.alpha[<<x, b.y>>] > 0 }),
       Cardinality(SharedCols(a, b)) >>

\* The shared edges of a and b at distance d, each as <<pairs, length>>.
Facing(img, a, b, d) ==
    (IF LeftOf(a, b, d) THEN {FacingH(img, a, b)} ELSE {})
    \cup (IF LeftOf(b, a, d) THEN {FacingH(img, b, a)} ELSE {})
    \cup (IF Above(a, b, d) THEN {FacingV(img, a, b)} ELSE {})
    \cup (IF Above(b, a, d) THEN {FacingV(img, b, a)} ELSE {})

C14_ToleranceOfOnePixel ==
    (pc = "grid_done" /\ Len(fragments) = 2
        /\ WithinCap(BoundingBox(SeqRange(fragments)))) =>
        \A d \in {1, -1} :
            \A e \in Facing(atlas, fragments[1], fragments[2], d) :
                2 * e[1] >= e[2] => regions = << BoundingBox(SeqRange(fragments)) >>

\* C15: no two output regions are edge-adjacent with more than half of the
\* pixel pairs along the shared edge opaque on both sides.
C15_NoMergeablePairLeft ==
    (pc = "grid_done" /\ fragments # <<>>) =>
        \A i \in 1 .. Len(regions), j \in 1 .. Len(regions) :
            i < j => \A e \in Facing(atlas, regions[i], regions[j], 0) :
                        ~(2 * e[1] > e[2])

\* Fragments i and j were unioned directly: the pair loop calls should_merge
\* with the lower index first.
Linked(i, j) ==
    i # j /\ should_merge(atlas, fragments[Min2(i, j)], fragments[Max2(i, j)])

\* The union-find group of the fragments S: the closure of S under Linked.
RECURSIVE GrowGroup(_)
GrowGroup(S) ==
    LET T == S \cup { j \in 1 .. Len(fragments) : \E i \in S : Linked(i, j) }
    IN  IF T = S THEN S ELSE GrowGroup(T)

FragmentGroups == { GrowGroup({i}) : i \in 1 .. Len(fragments) }

MembersOf(G) == { fragments[i] : i \in G }

\* What a group must come back as.
ExpectedOf(G) ==
    IF Cardinality(G) = 1 \/ ~WithinCap(BoundingBox(MembersOf(G)))
    THEN MembersOf(G)
    ELSE { BoundingBox(MembersOf(G)) }

RECURSIVE SumOfSizes(_)
SumOfSizes(SS) ==
    IF SS = {} THEN 0
    ELSE LET G == CHOOSE H \in SS : TRUE
         IN  Cardinality(ExpectedOf(G)) + SumOfSizes(SS \ {G})

\* C16: a group whose bounding box would be wider or taller than 96 comes
\* back as its members, unchanged; every other group of two or more fragments
\* comes back as exactly one region, the bounding box of its members; no
\* region made by merging is wider or taller than 96.
C16_OversizedGroupStaysUnmerged ==
    (pc = "grid_done" /\ fragments # <<>>) =>
        /\ SeqRange(regions) = UNION { ExpectedOf(G) : G \in FragmentGroups }
        /\ Len(regions) = SumOfSizes(FragmentGroups)
        /\ \A r \in SeqRange(regions) : r \notin SeqRange(fragments) => WithinCap(r)

\* A group of several fragments with a bounding box wider than 96 was left
\* as it was.
C16_Witness ==
    /\ pc = "grid_done"
    /\ regions = fragments
    /\ \E G \in FragmentGroups :
          Cardinality(G) >= 3 /\ BoundingBox(MembersOf(G)).w > 96

(***************************************************************************)
(* Properties of cmd_pack.                                                 *)
(***************************************************************************)
\* The sprites as loaded, before duplicate detection.
Loaded == load_sprites(sprites_dir)

SurvivorIds == { sp.id : sp \in SeqRange(sprites) }

\* The pixel bytes of a sprite.
ContentOf(sp) == tobytes(SpriteImages[sp.image])

RectsIntersect(a, b) ==
    a.x < b.x + b.w /\ b.x < a.x + a.w /\ a.y < b.y + b.h /\ b.y < a.y + a.h

\* C4: any two distinct entries of the manifest have rectangles that do not
\* intersect.
C4_ManifestRectsDisjoint ==
    pc = "pack_placed" =>
        \A a \in DOMAIN pack_regions, b \in DOMAIN pack_regions :
            a # b => ~RectsIntersect(pack_regions[a], pack_regions[b])

\* Three sprites were placed in two rows, two of them side by side.
C4_Witness ==
    /\ pc = "pack_placed"
    /\ Cardinality(DOMAIN pack_regions) = 3
    /\ Len(rows) = 2
    /\ \E a \in DOMAIN pack_regions, b \in DOMAIN pack_regions :
          /\ pack_regions[a].y = pack_regions[b].y
          /\ pack_regions[a].x < pack_regions[b].x
          /\ pack_regions[a].h > pack_regions[b].h + 1

\* C5: every rectangle of the manifest lies fully inside the atlas image.
C5_ManifestInsideAtlas ==
    pc = "pack_placed" =>
        \A id \in DOMAIN pack_regions :
            /\ 0 <= pack_regions[id].x
            /\ 0 <= pack_regions[id].y
            /\ pack_regions[id].x + pack_regions[id].w <= atlas_size[1]
            /\ pack_regions[id].y + pack_regions[id].h <= atlas_size[2]

\* C6: when an input sprite is wider than max_width, packing fails: no atlas
\* and no manifest is produced.
C6_TooWideSpriteIsFatal ==
    pc = "pack_placed" => \A sp \in SeqRange(Loaded) : sp.width <= max_width

TallestOf(row) == SeqMax({ sp.height : sp \in SeqRange(row.sprites) })

RECURSIVE RowStackHeight(_)
RowStackHeight(rws) ==
    IF rws = <<>> THEN 0 ELSE TallestOf(Head(rws)) + padding + RowStackHeight(Tail(rws))

IsPowerOfTwo(n) == n >= 1 /\ \A d \in 2 .. n : n % d = 0 => d % 2 = 0

\* C7: the atlas height is a power of two, and the smallest power of two that
\* is >= the sum over the rows of (tallest sprite of the row + padding).
C7_AtlasHeightIsLeastPowerOfTwo ==
    pc = "pack_placed" =>
        /\ IsPowerOfTwo(atlas_size[2])
        /\ atlas_size[2] >= RowStackHeight(rows)
        /\ \A q \in 1 .. atlas_size[2] - 1 :
              IsPowerOfTwo(q) => q < RowStackHeight(rows)

\* Several rows whose stack height is itself a power of two.
C7_Witness ==
    /\ pc = "pack_placed"
    /\ Len(rows) >= 2
    /\ atlas_size[2] = RowStackHeight(rows)

C9_FirstOccurrenceWins ==
    pc = "pack_deduped" =>
        \A i \in 1 .. Len(Loaded), j \in 1 .. Len(Loaded) :
            (/\ i < j
             /\ ContentOf(Loaded[i]) = ContentOf(Loaded[j])
             /\ startswith(Loaded[i].id, SpritePrefix) = startswith(Loaded[j].id, SpritePrefix))
                => Loaded[j].id \notin SurvivorIds

\* C10: no two survivors have the same content hash, and there are as many
\* survivors as distinct content hashes among the loaded sprites.
C10_OneSurvivorPerHash ==
    pc = "pack_deduped" =>
        /\ \A i \in 1 .. Len(sprites), j \in 1 .. Len(sprites) :
              i # j => get_image_hash(sprites[i].image) # get_image_hash(sprites[j].image)
        /\ Len(sprites) =
              Cardinality({ get_image_hash(sp.image) : sp \in SeqRange(Loaded) })
        /\ { get_image_hash(sp.image) : sp \in SeqRange(sprites) } =
              { get_image_hash(sp.image) : sp \in SeqRange(Loaded) }

\* Three sprites of two contents were loaded and one of them was dropped.
C10_Witness ==
    /\ pc = "pack_deduped"
    /\ Len(Loaded) = 3
    /\ Len(sprites) = 2
    /\ Len(duplicates) = 1

\* C11: a sprite whose image (size and pixel grid) differs from the image of
\* every other loaded sprite survives duplicate detection, also when its pixel
\* bytes equal those of a sprite of another width and height.
C11_UniqueShapeSurvives ==
    pc = "pack_deduped" =>
        \A sp \in SeqRange(Loaded) :
            (\A o \in SeqRange(Loaded) :
                o # sp => SpriteImages[o.image] # SpriteImages[sp.image])
                => sp.id \in SurvivorIds

\* C12: every sprite dropped by duplicate detection is recorded in duplicates
\* as (dropped id, kept id), the kept id being a survivor of the same content;
\* this includes a collision between two named sprites.
C12_EveryDropIsRecorded ==
    pc = "pack_deduped" =>
        \A sp \in SeqRange(Loaded) :
            sp.id \notin SurvivorIds =>
                \E k \in 1 .. Len(duplicates) :
                    /\ duplicates[k][1] = sp.id
                    /\ \E kept \in SeqRange(sprites) :
                          /\ duplicates[k][2] = kept.id
                          /\ ContentOf(kept) = ContentOf(sp)

\* C17: the manifest has exactly one entry per sprite surviving duplicate
\* detection (its keys are the surviving ids, each id once), and the w and h
\* of an entry are the width and height of that sprite's image.
C17_ManifestEntryPerSurvivor ==
    pc = "pack_placed" =>
        /\ DOMAIN pack_regions = SurvivorIds
        /\ \A i \in 1 .. Len(sprites), j \in 1 .. Len(sprites) :
              sprites[i].id = sprites[j].id => i = j
        /\ \A sp \in SeqRange(sprites) :
              /\ pack_regions[sp.id].w = SpriteImages[sprites_dir[sp.id]].width
              /\ pack_regions[sp.id].h = SpriteImages[sprites_dir[sp.id]].height

\* Two survivors in two rows and one dropped duplicate.
C17_Witness ==
    /\ pc = "pack_placed"
    /\ Len(rows) = 2
    /\ Len(duplicates) = 1
    /\ Cardinality(DOMAIN pack_regions) = 2

\* C18: when cmd_pack fails at any step, none of atlas.png, atlas.json and
\* the entity JSON files has been written; when it succeeds, atlas.png and
\* atlas.json have both been written.
C18_NoPartialSuccess ==
    /\ pc = "pack_failed" => written = {}
    /\ pc = "pack_done" => {"atlas.png", "atlas.json"} \subseteq written

\* The outcome of cmd_pack on the files of sprites_dir when glob yields them
\* in the order of listing: manifest, atlas size and the sprites pasted.
OutcomeOfRun(listing) ==
    LET rws == pack_rows(sort_by_height(deduplicated(
                   load_sprites_in(sprites_dir, sprite_files_in(listing)))))
    IN  [regions |-> build_regions(rws),
         size    |-> atlas_dimensions(rws),
         pastes  |-> paste_calls(rws)]

\* C19: a run of cmd_pack on the same sprite files, whatever the order in
\* which the directory is listed, gives the same manifest, the same atlas
\* size and the same pixels (the same images pasted at the same places).
C19_PackIsDeterministic ==
    pc = "pack_placed" =>
        \A listing \in Listings(sprites_dir) :
            OutcomeOfRun(listing) =
                [regions |-> pack_regions, size |-> atlas_size, pastes |-> paste_calls(rows)]

\* Three files listed in an order that is not the sorted one, two of them
\* auto-named with the same image, one of which was dropped.
C19_Witness ==
    /\ pc = "pack_placed"
    /\ Len(glob_order) = 3
    /\ glob_order # sorted_paths(DOMAIN sprites_dir)
    /\ {NameSprite001, NameSprite007} \subseteq DOMAIN sprites_dir
    /\ sprites_dir[NameSprite001] = sprites_dir[NameSprite007]
    /\ Len(duplicates) = 1
    /\ Len(sprites) = 2

\* C20: whenever atlas.json is present, cmd_extract neither runs the region
\* detector nor the splitter, and the sprites it extracts are exactly the
\* entries of the file, each with the name and the rectangle given there.
C20_NamedRegionsUsedVerbatim ==
    atlas_json.exists =>
        /\ pc \notin {"detected", "split", "named"}
        /\ pc = "extracted" =>
              /\ Len(extracted) = Len(atlas_json.entries)
              /\ \A e \in SeqRange(atlas_json.entries) :
                    \E i \in 1 .. Len(extracted) :
                        /\ extracted[i].name = e.name
                        /\ \A k \in DOMAIN e.coords : extracted[i][k] = e.coords[k]
              /\ DOMAIN extracted_pngs = { e.name : e \in SeqRange(atlas_json.entries) }


(***************************************************************************)
(* Properties of the rows of cmd_pack.                                     *)
(***************************************************************************)
RECURSIVE RunningWidth(_)
RunningWidth(sps) ==
    IF sps = <<>> THEN 0 ELSE Head(sps).width + padding + RunningWidth(Tail(sps))

NoSpriteTooWide == \A sp \in SeqRange(sprites) : sp.width <= max_width

\* C21 (as stated): when no sprite is wider than max_width, the running width
\* of every row (the sum over its sprites of width + padding) is <= max_width.
C21_RunningWidthWithinMax ==
    (pc = "pack_rows" /\ NoSpriteTooWide) =>
        \A i \in 1 .. Len(rows) :
            /\ rows[i].width = RunningWidth(rows[i].sprites)
            /\ rows[i].width <= max_width

\* C21 (amended): when no sprite is wider than max_width, the pixels a row
\* occupies (its running width less the padding after its last sprite) are
\* <= max_width; the running width itself is <= max_width in every row but
\* the row that holds a single sprite exactly max_width wide, where it is
\* max_width + padding.
C21_RowExtentWithinMax ==
    (pc = "pack_rows" /\ NoSpriteTooWide) =>
        \A i \in 1 .. Len(rows) :
            /\ rows[i].width = RunningWidth(rows[i].sprites)
            /\ rows[i].width - padding <= max_width
            /\ rows[i].width > max_width =>
                  /\ Len(rows[i].sprites) = 1
                  /\ rows[i].sprites[1].width = max_width

\* Three sprites at most max_width wide in two rows, one row of two sprites
\* and one row of a single sprite max_width wide.
C21_Witness ==
    /\ pc = "pack_rows"
    /\ NoSpriteTooWide
    /\ Len(rows) = 2
    /\ \E i \in 1 .. 2 : Len(rows[i].sprites) = 2
    /\ \E i \in 1 .. 2 : rows[i].width = max_width + padding


HeightsOf(row) == [i \in 1 .. Len(row.sprites) |-> row.sprites[i].height]

LoggedPixels == { visit_log[i].pixel : i \in 1 .. Len(visit_log) }

\* No pixel was added to visited twice, only opaque pixels were added, and
\* visited holds the pixels of the log.
VisitedAtMostOnce ==
    /\ \A i \in 1 .. Len(visit_log), j \in 1 .. Len(visit_log) :
          visit_log[i].pixel = visit_log[j].pixel => i = j
    /\ LoggedPixels \subseteq Opaque(atlas)
    /\ fill.visited = LoggedPixels

\* At the return: the stack is empty, every opaque pixel was visited, the
\* regions are the fills of the log, and an image without an opaque pixel
\* gives no region.
ScanOutcome ==
    pc = "scan_done" =>
        /\ fill.stack = <<>>
        /\ LoggedPixels = Opaque(atlas)
        /\ { visit_log[i].region : i \in 1 .. Len(visit_log) } = 1 .. Len(regions)
        /\ Opaque(atlas) = {} => regions = <<>>
        /\ regions = detect_sprite_regions(atlas)

\* C23: detect_sprite_regions terminates on every image; the flood fill adds
\* each opaque pixel to visited exactly once, the stack empties, no opaque
\* pixel belongs to the fill of two regions, and an image with no opaque
\* pixel gives an empty result.
C23_DetectTerminates ==
    /\ [](VisitedAtMostOnce /\ ScanOutcome)
    /\ <>(pc = "scan_done")

\* The scan returned three regions, one of them of three pixels or more.
C23_Witness ==
    /\ pc = "scan_done"
    /\ Len(regions) = 3
    /\ \E r \in 1 .. 3 :
          Cardinality({ i \in 1 .. Len(visit_log) : visit_log[i].region = r }) >= 3


(***************************************************************************)
(* Properties of the union-find of merge_adjacent_sprites.                 *)
(***************************************************************************)
FragmentPairs == index_pairs(Len(fragments), 1, 2)

\* The pairs for which should_merge is true.
MergePairs ==
    { q \in SeqRange(FragmentPairs) : should_merge(atlas, fragments[q[1]], fragments[q[2]]) }

\* The parent array after the whole pair loop.
ParentAfterLoop ==
    union_pairs(atlas, fragments, [i \in 1 .. Len(fragments) |-> i], FragmentPairs, 1)

RECURSIVE Ascend(_, _, _)
Ascend(parent, x, steps) ==
    IF steps = 0 THEN x ELSE Ascend(parent, parent[x], steps - 1)

\* Every chain of parents ends in an index that is its own parent.
IsForest(parent) ==
    /\ \A x \in DOMAIN parent : parent[x] \in DOMAIN parent
    /\ \A x \in DOMAIN parent :
          LET top == Ascend(parent, x, Len(parent)) IN parent[top] = top

\* The indices joined to S by a chain of the pairs in links.
RECURSIVE GrowWithin(_, _)
GrowWithin(links, S) ==
    LET T == S \cup { j \in 1 .. Len(fragments) :
                        \E i \in S : <<i, j>> \in links \/ <<j, i>> \in links }
    IN  IF T = S THEN S ELSE GrowWithin(links, T)

\* parent is the array after the pairs in done, of which links are the pairs
\* with should_merge true.
UnionFindHolds(parent, links) ==
    LET idx   == 1 .. Len(fragments)
        found == [i \in idx |-> find(parent, i)]
        comp  == [i \in idx |-> GrowWithin(links, {i})]
    IN  /\ IsForest(parent)
        /\ \A i \in idx :
              /\ IsForest(found[i].parent)
              /\ found[i].root = Ascend(parent, i, Len(parent))
              /\ \A j \in idx :
                    /\ Ascend(found[i].parent, j, Len(parent)) = Ascend(parent, j, Len(parent))
                    /\ (found[j].root = found[i].root) <=> j \in comp[i]

\* The pair loop from pair k on, parent being the array before pair k.
RECURSIVE UnionFindFrom(_, _, _)
UnionFindFrom(k, parent, links) ==
    /\ UnionFindHolds(parent, links)
    /\ IF k > Len(FragmentPairs) THEN parent = ParentAfterLoop
       ELSE LET q == FragmentPairs[k]
            IN  IF q \in MergePairs
                THEN UnionFindFrom(k + 1, union(parent, q[1], q[2]), links \cup {q})
                ELSE UnionFindFrom(k + 1, parent, links)

\* C24: after the pairwise unions (and after every one of them) two indices
\* have the same find() root exactly when a chain of pairs with should_merge
\* true connects them; every find() ends at the root, and the parent array is
\* a forest before and after it.
C24_GroupsAreComponents ==
    (pc = "grid_done" /\ fragments # <<>>) =>
        UnionFindFrom(1, [i \in 1 .. Len(fragments) |-> i], {})

\* Three fragments or more in one group, one of them two links below its root.
C24_Witness ==
    /\ pc = "grid_done"
    /\ fragments # <<>>
    /\ LET parent == ParentAfterLoop
       IN  \E x \in DOMAIN parent :
              parent[x] # x /\ parent[parent[x]] # parent[x]


(***************************************************************************)
(* Properties of apply_sprite_renames.                                     *)
(***************************************************************************)
\* A sprite is a PNG file whose name does not start with "_".
IsSpriteName(n) == ~startswith(n \o PngSuffix, HiddenPrefix)

SpritesIn(dir) == { n \in DOMAIN dir : IsSpriteName(n) }

RenamedFrom == { renames[i].key : i \in 1 .. Len(renames) }

RenamedTo == { renames[i].value : i \in 1 .. Len(renames) }

\* The mapping is a permutation of names of sprites that exist.
IsPermutationOfSprites ==
    /\ RenamedFrom \subseteq SpritesIn(sprites_before)
    /\ RenamedTo = RenamedFrom

ContentsOf(dir) == { dir[n] : n \in DOMAIN dir }

\* C27: whatever the mapping (a target that is the name of a sprite that is
\* not renamed, two targets that coincide), the rename loses no file: there
\* are as many files after it as before, with the same contents.
C27_RenameLosesNoSprite ==
    pc \in {"rename_done", "rename_failed"} =>
        /\ Cardinality(DOMAIN sprites_dir) = Cardinality(DOMAIN sprites_before)
        /\ ContentsOf(sprites_dir) = ContentsOf(sprites_before)
        /\ Cardinality(ContentsOf(sprites_dir)) = Cardinality(DOMAIN sprites_dir)


ManifestOnDisk ==
    [id \in { e.name : e \in SeqRange(atlas_json.entries) } |->
        (CHOOSE e \in SeqRange(atlas_json.entries) : e.name = id).coords]

\* C28: cmd_extract on the atlas.png and atlas.json of a cmd_pack run, then
\* cmd_pack again, gives the manifest of the first run: the same ids with
\* the same rectangles.
C28_ExtractThenPackIsFixedPoint ==
    (pc = "pack_placed" /\ extracted # <<>>) => pack_regions = ManifestOnDisk


(***************************************************************************)
(* Properties of split_by_gaps on detected regions.                        *)
(***************************************************************************)
SubImageOf(r) == crop(atlas, r.x, r.y, r.x + r.w, r.y + r.h)

\* C29: a region returned by detect_sprite_regions has an opaque pixel in
\* every row and in every column, so split_by_gaps finds no gap in it (its
\* split lists are the two ends only), and an oversized detected region is
\* subdivided by split_by_grid with the 32-pixel grid.
C29_DetectedRegionHasNoGap ==
    pc = "detected" =>
        \A i \in 1 .. Len(regions) :
            LET r == regions[i]
            IN  /\ \A y \in r.y .. r.y + r.h - 1 :
                      \E x \in r.x .. r.x + r.w - 1 : <<x, y>> \in Opaque(atlas)
                /\ \A x \in r.x .. r.x + r.w - 1 :
                      \E y \in r.y .. r.y + r.h - 1 : <<x, y>> \in Opaque(atlas)
                /\ find_h_splits(SubImageOf(r), 0, <<0>>) = <<0, r.h>>
                /\ find_v_splits(SubImageOf(r), 0, <<0>>) = <<0, r.w>>
                /\ is_oversized(r, max_size) =>
                      split_by_gaps(r, atlas, max_size) = split_by_grid(r, atlas, GridSize)

\* An oversized region was detected that has a transparent pixel inside, next
\* to another region.
C29_Witness ==
    /\ pc = "detected"
    /\ Len(regions) >= 2
    /\ \E i \in 1 .. Len(regions) :
          /\ is_oversized(regions[i], max_size)
          /\ regions[i].w >= 2
          /\ regions[i].h >= 2
          /\ \E x \in regions[i].x .. regions[i].x + regions[i].w - 1,
                y \in regions[i].y .. regions[i].y + regions[i].h - 1 :
                <<x, y>> \notin Opaque(atlas)


(***************************************************************************)
(* Properties of the WAV driver.                                           *)
(***************************************************************************)
Rejected == { i \in 1 .. Len(wav_log) : wav_log[i].outcome = "rejected" }

\* C30: when convert_24bit_to_16bit has rejected a file and the driver has
\* handled the exception, the original file is at its original path, and
\* nothing else in res/sfx was written for it.
C30_RejectedFileStaysInPlace ==
    \A i \in Rejected :
        LET path == wav_log[i].path
        IN  /\ path \in DOMAIN sfx_dir
            /\ sfx_dir[path] = sfx_before[path]
            /\ with_suffix_bak(path) \notin DOMAIN sfx_dir

\* What the driver does leave behind: no file at the original path, and the
\* original content under the .wav.bak name.
S30_RejectedFileIsTheBackup ==
    \A i \in Rejected :
        LET path == wav_log[i].path
        IN  /\ path \notin DOMAIN sfx_dir
            /\ with_suffix_bak(path) \in DOMAIN sfx_dir
            /\ sfx_dir[with_suffix_bak(path)] = sfx_before[path]

\* A file the converter does not raise for keeps a backup and gets the
\* 16-bit file at its path; every other file is left as it was.
S30_OtherFilesKept ==
    pc = "wav_done" =>
        \A i \in 1 .. Len(wav_log) :
            LET path == wav_log[i].path
            IN  /\ wav_log[i].outcome = "converted" =>
                      /\ sfx_dir[path] = Converted
                      /\ sfx_dir[with_suffix_bak(path)] = sfx_before[path]
                /\ wav_log[i].outcome \in {"backup_name", "skipped", "error"} =>
                      /\ path \in DOMAIN sfx_dir
                      /\ sfx_dir[path] = sfx_before[path]

=============================================================================
